---- MODULE Spec2Model ----
(***************************************************************************)
(* Model of the job matcher's scoring engine (JobMatcher.match_job) and    *)
(* ranking pipeline (JobMatcher.rank_jobs), src/job_matcher/core.          *)
(*                                                                         *)
(* Numbers.  Python floats are modelled as exact rationals [n, d] kept in  *)
(* lowest terms, so 0.35 is 7/20 and a score such as (1/3)*70 is 70/3.     *)
(* Text.  Python str values are TLA+ strings; lower(), title(), split(),   *)
(* the `in` substring test and the four regular expressions are modelled   *)
(* character by character.                                                 *)
(* Time.  datetime values are whole day numbers; timedelta.days is the     *)
(* difference of two day numbers.                                          *)
(* Optional[T].  None is the empty tuple <<>>, a present value v is <<v>>. *)
(***************************************************************************)
EXTENDS Integers, Sequences, FiniteSets, TLC

-----------------------------------------------------------------------------
(* Exact rational arithmetic standing for Python float arithmetic.         *)

Abs(i) == IF i < 0 THEN -i ELSE i

RECURSIVE GCD(_, _)
GCD(a, b) == IF b = 0 THEN a ELSE GCD(b, a % b)

\* n/d in lowest terms with a positive denominator (d # 0)
Rat(n, d) ==
    LET g == GCD(Abs(n), Abs(d))
        s == IF d < 0 THEN -1 ELSE 1
    IN  [n |-> s * (n \div g), d |-> s * (d \div g)]

Int2Rat(i) == [n |-> i, d |-> 1]

RAdd(a, b) ==
    LET g == GCD(a.d, b.d)
    IN  Rat(a.n * (b.d \div g) + b.n * (a.d \div g), (a.d \div g) * b.d)

RNeg(a) == [n |-> -a.n, d |-> a.d]

RSub(a, b) == RAdd(a, RNeg(b))

RMul(a, b) ==
    LET g1 == GCD(Abs(a.n), b.d)
        g2 == GCD(Abs(b.n), a.d)
    IN  Rat((a.n \div g1) * (b.n \div g2), (a.d \div g2) * (b.d \div g1))

\* a / b for b # 0
RDiv(a, b) == RMul(a, Rat(b.d, b.n))

\* a <= b, comparing integer parts and then the reciprocals of the fractional
\* parts, so that no product of a numerator and a denominator is formed
RECURSIVE RLe(_, _)
RLe(a, b) ==
    LET qa == a.n \div a.d
        qb == b.n \div b.d
        ra == a.n % a.d
        rb == b.n % b.d
    IN  IF qa # qb THEN qa < qb
        ELSE IF ra = 0 THEN TRUE
        ELSE IF rb = 0 THEN FALSE
        ELSE RLe([n |-> b.d, d |-> rb], [n |-> a.d, d |-> ra])

RLt(a, b) == ~RLe(b, a)
RGe(a, b) == RLe(b, a)
RGt(a, b) == RLt(b, a)

RMin(a, b) == IF RLe(a, b) THEN a ELSE b
RMax(a, b) == IF RGe(a, b) THEN a ELSE b

-----------------------------------------------------------------------------
(* Python str operations.                                                  *)

UpperLetters == "ABCDEFGHIJKLMNOPQRSTUVWXYZ"
LowerLetters == "abcdefghijklmnopqrstuvwxyz"
Digits == "0123456789"

CharAt(s, i) == SubSeq(s, i, i)

\* the characters of a string, as a set of one-character strings
Chars(abc) == { CharAt(abc, i) : i \in 1..Len(abc) }

\* the function that maps the i-th character of from to the i-th of to
CharMap(from, to) == [ c \in Chars(from) |-> CharAt(to, CHOOSE i \in 1..Len(from) : CharAt(from, i) = c) ]

UpperSet == Chars(UpperLetters)
LowerSet == Chars(LowerLetters)
DigitSet == Chars(Digits)
ToLower == CharMap(UpperLetters, LowerLetters)
ToUpper == CharMap(LowerLetters, UpperLetters)
DigitValue == [ c \in DigitSet |-> (CHOOSE i \in 1..10 : CharAt(Digits, i) = c) - 1 ]

IsUpper(c) == c \in UpperSet
IsLower(c) == c \in LowerSet
IsCased(c) == IsUpper(c) \/ IsLower(c)
IsDigit(c) == c \in DigitSet
IsSpace(c) == c \in {" ", "\t", "\n"}

LowerChar(c) == IF IsUpper(c) THEN ToLower[c] ELSE c
UpperChar(c) == IF IsLower(c) THEN ToUpper[c] ELSE c

\* str.lower()
RECURSIVE lower(_)
lower(s) == IF s = "" THEN "" ELSE LowerChar(CharAt(s, 1)) \o lower(SubSeq(s, 2, Len(s)))

\* str.title(): a cased character is upper-cased when the character before
\* it is not cased (or it is the first), lower-cased otherwise
RECURSIVE TitleFrom(_, _, _)
TitleFrom(s, i, prevCased) ==
    IF i > Len(s) THEN ""
    ELSE LET c == CharAt(s, i)
         IN  (IF prevCased THEN LowerChar(c) ELSE UpperChar(c))
                 \o TitleFrom(s, i + 1, IsCased(c))

title(s) == TitleFrom(s, 1, FALSE)

\* the Python test `t in s` on strings
Contains(s, t) ==
    \E i \in 1..(Len(s) - Len(t) + 1) : SubSeq(s, i, i + Len(t) - 1) = t

\* str.replace(',', ' ')
RECURSIVE ReplaceComma(_)
ReplaceComma(s) ==
    IF s = "" THEN ""
    ELSE (IF CharAt(s, 1) = "," THEN " " ELSE CharAt(s, 1)) \o ReplaceComma(SubSeq(s, 2, Len(s)))

\* first position >= i that holds whitespace, Len(s) + 1 if none
RECURSIVE WordEnd(_, _)
WordEnd(s, i) ==
    IF i <= Len(s) /\ ~IsSpace(CharAt(s, i)) THEN WordEnd(s, i + 1) ELSE i

\* set(str.split()): the maximal runs of non-whitespace characters
SplitSet(s) ==
    { SubSeq(s, i, WordEnd(s, i) - 1) :
        i \in { k \in 1..Len(s) : /\ ~IsSpace(CharAt(s, k))
                                  /\ (k = 1 \/ IsSpace(CharAt(s, k - 1))) } }

\* ' '.join(list)
RECURSIVE JoinSpace(_)
JoinSpace(l) ==
    IF l = <<>> THEN ""
    ELSE IF Len(l) = 1 THEN l[1]
    ELSE l[1] \o " " \o JoinSpace(Tail(l))

-----------------------------------------------------------------------------
(* Optional values and Python truthiness.                                  *)

None == <<>>
Some(v) == <<v>>

\* the element of a one-element set.  Only({ e(v) : v \in {x} }) is e(x) with
\* x computed once: a local variable of the source assigned once and read
\* several times
Only(S) == CHOOSE r \in S : TRUE

\* bool(x) for an Optional[int]: None and 0 are falsy
Truthy(opt) == opt # None /\ opt[1] # 0

\* the Python expression `a or b` on Optional[int]
PyOr(a, b) == IF Truthy(a) THEN a ELSE b

-----------------------------------------------------------------------------
(* Data model (core/models.py).                                            *)
(*   Skill      [name, level]              (keywords are collected by      *)
(*              _calculate_skill_match but never read, so they are left    *)
(*              out)                                                       *)
(*   Experience [start_date, end_date]     day numbers, end_date Optional  *)
(*   Education  [degree]                                                   *)
(*   profile    [skills, experiences, education, location,                 *)
(*               desired_locations, min_salary, remote_preference]         *)
(*   job        [id, location, description, requirements, required_skills, *)
(*               preferred_skills, salary_min, salary_max, remote_option,  *)
(*               experience_level]                                         *)

\* Experience.duration_years is days / 365.25; this is its whole-day count
duration_days(exp, now) ==
    (IF exp.end_date = None THEN now ELSE exp.end_date[1]) - exp.start_date

RECURSIVE total_experience_days(_, _)
total_experience_days(exps, now) ==
    IF exps = <<>> THEN 0
    ELSE duration_days(Head(exps), now) + total_experience_days(Tail(exps), now)

\* UserProfile.total_experience_years = sum of days / 365.25
total_experience_years(profile, now) ==
    Rat(4 * total_experience_days(profile.experiences, now), 1461)

\* MatchScore() with the dataclass defaults
MatchScore ==
    [ overall_score |-> Int2Rat(0), skill_match_score |-> Int2Rat(0),
      experience_match_score |-> Int2Rat(0), education_match_score |-> Int2Rat(0),
      location_match_score |-> Int2Rat(0), salary_match_score |-> Int2Rat(0),
      culture_fit_score |-> Int2Rat(0), hiring_likelihood |-> Int2Rat(0),
      compensation_score |-> Int2Rat(0),
      matched_skills |-> <<>>, missing_skills |-> <<>>, bonus_skills |-> <<>> ]

-----------------------------------------------------------------------------
(* JobMatcher: skills.                                                     *)

variations ==
    << [base |-> "javascript", variants |-> {"js", "ecmascript"}],
       [base |-> "typescript", variants |-> {"ts"}],
       [base |-> "python", variants |-> {"py"}],
       [base |-> "kubernetes", variants |-> {"k8s"}],
       [base |-> "postgresql", variants |-> {"postgres", "psql"}],
       [base |-> "mongodb", variants |-> {"mongo"}],
       [base |-> "react", variants |-> {"reactjs", "react.js"}],
       [base |-> "node.js", variants |-> {"nodejs", "node"}],
       [base |-> "machine learning", variants |-> {"ml"}],
       [base |-> "artificial intelligence", variants |-> {"ai"}],
       [base |-> "amazon web services", variants |-> {"aws"}],
       [base |-> "google cloud platform", variants |-> {"gcp"}],
       [base |-> "continuous integration", variants |-> {"ci"}],
       [base |-> "continuous deployment", variants |-> {"cd"}],
       [base |-> "ci/cd", variants |-> {"cicd", "ci cd"}] >>

\* variant: only the second name is looked up among the aliases of a term
skills_match_alias_second(skill1, skill2) ==
    \/ skill1 = skill2
    \/ \E k \in 1..Len(variations) :
          \/ skill1 = variations[k].base /\ skill2 \in variations[k].variants
          \/ skill1 \in variations[k].variants /\ skill2 \in variations[k].variants
    \/ /\ Len(skill1) > 3 /\ Len(skill2) > 3
       /\ (Contains(skill2, skill1) \/ Contains(skill1, skill2))

\* variant: two aliases of one term are not looked up
skills_match_term_and_alias(skill1, skill2) ==
    \/ skill1 = skill2
    \/ \E k \in 1..Len(variations) :
          \/ skill1 = variations[k].base /\ skill2 \in variations[k].variants
          \/ skill2 = variations[k].base /\ skill1 \in variations[k].variants
    \/ /\ Len(skill1) > 3 /\ Len(skill2) > 3
       /\ (Contains(skill2, skill1) \/ Contains(skill1, skill2))

_skills_match(skill1, skill2) ==
    \/ skill1 = skill2
    \/ \E k \in 1..Len(variations) :
          \/ skill1 = variations[k].base /\ skill2 \in variations[k].variants
          \/ skill2 = variations[k].base /\ skill1 \in variations[k].variants
          \/ skill1 \in variations[k].variants /\ skill2 \in variations[k].variants
    \/ /\ Len(skill1) > 3 /\ Len(skill2) > 3
       /\ (Contains(skill2, skill1) \/ Contains(skill1, skill2))

\* {s.name.lower() for s in self.profile.skills}
user_skills_lower(profile) ==
    { lower(profile.skills[i].name) : i \in 1..Len(profile.skills) }

\* variant: only a profile skill of the same lower-cased name covers a job skill
SkillCoveredExactly(profile, job_skill_lower) ==
    job_skill_lower \in user_skills_lower(profile)

\* lower-cased job skill equal or equivalent to some profile skill
SkillCovered(profile, job_skill_lower) ==
    \/ job_skill_lower \in user_skills_lower(profile)
    \/ \E us \in user_skills_lower(profile) : _skills_match(job_skill_lower, us)

\* twice the `matches` counter of _fuzzy_skill_match (it grows by 1 and 0.5)
RECURSIVE FuzzyMatches2(_, _)
FuzzyMatches2(skills, desc_lower) ==
    IF skills = <<>> THEN 0
    ELSE (IF Contains(desc_lower, lower(Head(skills).name))
          THEN (IF Head(skills).level \in {"EXPERT", "ADVANCED"} THEN 3 ELSE 2)
          ELSE 0) + FuzzyMatches2(Tail(skills), desc_lower)

_fuzzy_skill_match(profile, description) ==
    IF description = "" THEN Int2Rat(50)
    ELSE LET total_skills == IF Len(profile.skills) = 0 THEN 1 ELSE Len(profile.skills)
             matches2 == FuzzyMatches2(profile.skills, lower(description))
         IN  RMin(Int2Rat(100), RMul(Rat(matches2, 2 * total_skills), Int2Rat(100)))

\* variant: the share of an empty list goes to the other list
skill_match_redistributed(profile, job) ==
    IF job.required_skills = <<>> /\ job.preferred_skills = <<>>
    THEN _fuzzy_skill_match(profile, job.description)
    ELSE LET required_matches ==
                 Cardinality({ i \in 1..Len(job.required_skills) :
                                 SkillCovered(profile, lower(job.required_skills[i])) })
             preferred_matches ==
                 Cardinality({ i \in 1..Len(job.preferred_skills) :
                                 SkillCovered(profile, lower(job.preferred_skills[i])) })
             req_total == IF Len(job.required_skills) = 0 THEN 1 ELSE Len(job.required_skills)
             pref_total == IF Len(job.preferred_skills) = 0 THEN 1 ELSE Len(job.preferred_skills)
             required_points == IF job.preferred_skills = <<>> THEN 100 ELSE 70
             preferred_points == IF job.required_skills = <<>> THEN 100 ELSE 30
             required_score == RMul(Rat(required_matches, req_total), Int2Rat(required_points))
             preferred_score == RMul(Rat(preferred_matches, pref_total), Int2Rat(preferred_points))
         IN  RMin(Int2Rat(100), RAdd(required_score, preferred_score))

_calculate_skill_match(profile, job) ==
    IF job.required_skills = <<>> /\ job.preferred_skills = <<>>
    THEN _fuzzy_skill_match(profile, job.description)
    ELSE LET required_matches ==
                 Cardinality({ i \in 1..Len(job.required_skills) :
                                 SkillCovered(profile, lower(job.required_skills[i])) })
             preferred_matches ==
                 Cardinality({ i \in 1..Len(job.preferred_skills) :
                                 SkillCovered(profile, lower(job.preferred_skills[i])) })
             req_total == IF Len(job.required_skills) = 0 THEN 1 ELSE Len(job.required_skills)
             pref_total == IF Len(job.preferred_skills) = 0 THEN 1 ELSE Len(job.preferred_skills)
             required_score == RMul(Rat(required_matches, req_total), Int2Rat(70))
             preferred_score == RMul(Rat(preferred_matches, pref_total), Int2Rat(30))
         IN  RMin(Int2Rat(100), RAdd(required_score, preferred_score))

\* iteration order of a Python set: fixed within one process, unspecified
RECURSIVE SetToSeq(_)
SetToSeq(S) ==
    IF S = {} THEN <<>>
    ELSE LET x == CHOOSE y \in S : TRUE IN <<x>> \o SetToSeq(S \ {x})

RECURSIVE MapTitle(_)
MapTitle(l) == IF l = <<>> THEN <<>> ELSE <<title(Head(l))>> \o MapTitle(Tail(l))

\* variant: every job skill without an equivalent profile skill is missing,
\* the preferred ones too
skill_details_missing_preferred(profile, job) ==
    LET user_skills == user_skills_lower(profile)
        required == { lower(job.required_skills[i]) : i \in 1..Len(job.required_skills) }
        preferred == { lower(job.preferred_skills[i]) : i \in 1..Len(job.preferred_skills) }
        all_job_skills == required \cup preferred
        isMatched(skill) ==
            \/ skill \in all_job_skills
            \/ \E js \in all_job_skills : _skills_match(skill, js)
        isMissing(req) ==
            /\ req \notin user_skills
            /\ ~\E us \in user_skills : _skills_match(req, us)
    IN  [ matched |-> MapTitle(SetToSeq({ s \in user_skills : isMatched(s) })),
          missing |-> MapTitle(SetToSeq({ r \in all_job_skills : isMissing(r) })),
          bonus   |-> MapTitle(SetToSeq({ s \in user_skills : ~isMatched(s) })) ]

\* returns the record [matched, missing, bonus]
_get_skill_details(profile, job) ==
    LET user_skills == user_skills_lower(profile)
        required == { lower(job.required_skills[i]) : i \in 1..Len(job.required_skills) }
        preferred == { lower(job.preferred_skills[i]) : i \in 1..Len(job.preferred_skills) }
        all_job_skills == required \cup preferred
        isMatched(skill) ==
            \/ skill \in all_job_skills
            \/ \E js \in all_job_skills : _skills_match(skill, js)
        isMissing(req) ==
            /\ req \notin user_skills
            /\ ~\E us \in user_skills : _skills_match(req, us)
    IN  [ matched |-> MapTitle(SetToSeq({ s \in user_skills : isMatched(s) })),
          missing |-> MapTitle(SetToSeq({ r \in required : isMissing(r) })),
          bonus   |-> MapTitle(SetToSeq({ s \in user_skills : ~isMatched(s) })) ]

-----------------------------------------------------------------------------
(* JobMatcher: experience.  The patterns of _extract_required_years are    *)
(* matched with re.search and re.IGNORECASE: the leftmost match wins.      *)
(* Ignoring case is matching the lower-cased text against the patterns,    *)
(* which are in lower case.                                                *)

\* first position >= i that holds no whitespace (\s* is greedy)
RECURSIVE SkipSpaces(_, _)
SkipSpaces(s, i) ==
    IF i <= Len(s) /\ IsSpace(CharAt(s, i)) THEN SkipSpaces(s, i + 1) ELSE i

\* first position >= i that holds no digit (\d+ is greedy)
RECURSIVE DigitsEnd(_, _)
DigitsEnd(s, i) ==
    IF i <= Len(s) /\ IsDigit(CharAt(s, i)) THEN DigitsEnd(s, i + 1) ELSE i

\* the literal lit stands at position i
MatchLit(s, i, lit) ==
    /\ i >= 1
    /\ i + Len(lit) - 1 <= Len(s)
    /\ SubSeq(s, i, i + Len(lit) - 1) = lit

\* float(match.group(1)) for a string of digits
RECURSIVE ParseInt(_)
ParseInt(ds) ==
    IF ds = "" THEN 0
    ELSE 10 * ParseInt(SubSeq(ds, 1, Len(ds) - 1)) + DigitValue[CharAt(ds, Len(ds))]

\* position after  \+?\s*years?\s*(?:of\s+)?  read from j, or 0 if `year` is absent
AfterYearsOf(s, j) ==
    LET j1 == IF j <= Len(s) /\ CharAt(s, j) = "+" THEN j + 1 ELSE j
        j2 == SkipSpaces(s, j1)
        j3 == j2 + 4
        j4 == IF MatchLit(s, j3, "s") THEN j3 + 1 ELSE j3
        j5 == SkipSpaces(s, j4)
        j6 == IF MatchLit(s, j5, "of") /\ j5 + 2 <= Len(s) /\ IsSpace(CharAt(s, j5 + 2))
              THEN SkipSpaces(s, j5 + 2) ELSE j5
    IN  IF MatchLit(s, j2, "year") THEN j6 ELSE 0

\* (\d+)\+?\s*years?\s*(?:of\s+)?experience  matches with its digits at i
Pattern1At(s, i) ==
    /\ IsDigit(CharAt(s, i))
    /\ LET k == AfterYearsOf(s, DigitsEnd(s, i))
       IN  k # 0 /\ MatchLit(s, k, "experience")

\* (\d+)\+?\s*years?\s*(?:of\s+)?(?:relevant|professional)
Pattern2At(s, i) ==
    /\ IsDigit(CharAt(s, i))
    /\ LET k == AfterYearsOf(s, DigitsEnd(s, i))
       IN  k # 0 /\ (MatchLit(s, k, "relevant") \/ MatchLit(s, k, "professional"))

\* start of the digits of  <prefix>\s+(\d+)\s*years?  when the match starts at i, else 0
DigitsAfterPrefix(s, i, k) ==
    LET d == SkipSpaces(s, k)
        e == DigitsEnd(s, d)
    IN  IF d > k /\ e > d /\ MatchLit(s, SkipSpaces(s, e), "year") THEN d ELSE 0

\* minimum\s+(\d+)\s*years?
Pattern3At(s, i) ==
    IF MatchLit(s, i, "minimum") THEN DigitsAfterPrefix(s, i, i + 7) ELSE 0

\* at\s+least\s+(\d+)\s*years?
Pattern4At(s, i) ==
    LET a == SkipSpaces(s, i + 2)
    IN  IF MatchLit(s, i, "at") /\ a > i + 2 /\ MatchLit(s, a, "least")
        THEN DigitsAfterPrefix(s, i, a + 5) ELSE 0

\* the number captured by the digits that start at d
GroupAt(s, d) == ParseInt(SubSeq(s, d, DigitsEnd(s, d) - 1))

\* the group of the first pattern that matches text (lower-cased), or None
search_patterns(text) ==
    LET pos == 1..Len(text)
        first(S) == CHOOSE i \in S : \A k \in S : i <= k
        m1 == { i \in pos : Pattern1At(text, i) }
        m2 == { i \in pos : Pattern2At(text, i) }
        m3 == { i \in pos : Pattern3At(text, i) # 0 }
        m4 == { i \in pos : Pattern4At(text, i) # 0 }
    IN  IF m1 # {} THEN Some(GroupAt(text, first(m1)))
        ELSE IF m2 # {} THEN Some(GroupAt(text, first(m2)))
        ELSE IF m3 # {} THEN Some(GroupAt(text, Pattern3At(text, first(m3))))
        ELSE IF m4 # {} THEN Some(GroupAt(text, Pattern4At(text, first(m4))))
        ELSE None

_extract_required_years(job) ==
    Only({ search_patterns(text) :
             text \in { lower(job.description \o " " \o JoinSpace(job.requirements)) } })

level_years ==
    << <<"entry", 0>>, <<"junior", 1>>, <<"mid", 3>>, <<"senior", 5>>, <<"lead", 7>>,
       <<"principal", 10>>, <<"staff", 8>>, <<"director", 10>>, <<"executive", 15>> >>

\* variant: a captured 0 counts as no number
required_years_zero_as_missing(job) ==
    Only({ IF extracted # None /\ extracted[1] # 0 THEN extracted[1]
           ELSE IF hits # {} THEN level_years[CHOOSE k \in hits : \A h \in hits : k <= h][2]
           ELSE 2 :
             extracted \in { _extract_required_years(job) },
             hits \in { { k \in 1..Len(level_years) :
                            Contains(lower(job.experience_level), level_years[k][1]) } } })

\* required years after the three steps: regex, level keyword, default 2
required_years(job) ==
    Only({ IF extracted # None THEN extracted[1]
           ELSE IF hits # {} THEN level_years[CHOOSE k \in hits : \A h \in hits : k <= h][2]
           ELSE 2 :
             extracted \in { _extract_required_years(job) },
             hits \in { { k \in 1..Len(level_years) :
                            Contains(lower(job.experience_level), level_years[k][1]) } } })

\* variant: the score for the overqualified is not lowered to 90
experience_score_without_penalty(user_years, req) ==
    IF RGe(user_years, Int2Rat(req))
    THEN [exc |-> "", val |-> Int2Rat(100)]
    ELSE IF req = 0
    THEN [exc |-> "ZeroDivisionError", val |-> Int2Rat(0)]
    ELSE [exc |-> "",
          val |-> RMax(Int2Rat(0), RMin(Int2Rat(100),
                    RMul(RDiv(user_years, Int2Rat(req)), Int2Rat(80))))]

\* returns [exc, val]: exc names the exception raised ("" for none)
\* the score of user_years against the required years req
experience_score(user_years, req) ==
    IF RGe(user_years, Int2Rat(req))
    THEN [exc |-> "",
          val |-> RMax(Int2Rat(0), RMin(Int2Rat(100),
                    IF RGt(user_years, RMul(Int2Rat(req), Rat(3, 2)))
                    THEN Int2Rat(90) ELSE Int2Rat(100)))]
    ELSE IF req = 0
    THEN [exc |-> "ZeroDivisionError", val |-> Int2Rat(0)]
    ELSE [exc |-> "",
          val |-> RMax(Int2Rat(0), RMin(Int2Rat(100),
                    RMul(RDiv(user_years, Int2Rat(req)), Int2Rat(80))))]

_calculate_experience_match(profile, job, now) ==
    Only({ experience_score(user_years, req) :
             user_years \in { total_experience_years(profile, now) },
             req \in { required_years(job) } })

-----------------------------------------------------------------------------
(* JobMatcher: education, location, salary, compensation.                  *)

degree_requirements ==
    << <<"phd", 100>>, <<"doctorate", 100>>, <<"master", 80>>, <<"mba", 80>>,
       <<"bachelor", 60>>, <<"associate", 40>>, <<"degree", 50>> >>

\* level of the first keyword of degree_requirements contained in t, 0 if none
DegreeLevel(t) ==
    LET hits == { k \in 1..Len(degree_requirements) : Contains(t, degree_requirements[k][1]) }
    IN  IF hits = {} THEN 0
        ELSE degree_requirements[CHOOSE k \in hits : \A h \in hits : k <= h][2]

RECURSIVE SeqMax(_)
SeqMax(l) == IF Len(l) = 1 THEN l[1]
             ELSE LET m == SeqMax(Tail(l)) IN IF l[1] >= m THEN l[1] ELSE m

\* variant: a degree keyword in the text is a requirement as it stands
education_listed_keyword_suffices(profile, job) ==
         LET text == lower(job.description \o " " \o JoinSpace(job.requirements))
             required_level == DegreeLevel(text)
             user_degrees ==
                 SelectSeq([ i \in 1..Len(profile.education) |->
                               DegreeLevel(lower(profile.education[i].degree)) ],
                           LAMBDA v : v # 0)
         IN  IF required_level = 0 THEN Int2Rat(80)
             ELSE IF user_degrees = <<>> THEN Int2Rat(40)
             ELSE IF SeqMax(user_degrees) >= required_level THEN Int2Rat(100)
             ELSE RMul(Rat(SeqMax(user_degrees), required_level), Int2Rat(80))

\* the part of _calculate_education_match behind its first guard
education_listed(profile, job) ==
         LET text == lower(job.description \o " " \o JoinSpace(job.requirements))
             required_level ==
                 IF Contains(text, "required") \/ Contains(text, "must have")
                 THEN DegreeLevel(text) ELSE 0
             user_degrees ==
                 SelectSeq([ i \in 1..Len(profile.education) |->
                               DegreeLevel(lower(profile.education[i].degree)) ],
                           LAMBDA v : v # 0)
         IN  IF required_level = 0 THEN Int2Rat(80)
             ELSE IF user_degrees = <<>> THEN Int2Rat(40)
             ELSE IF SeqMax(user_degrees) >= required_level THEN Int2Rat(100)
             ELSE RMul(Rat(SeqMax(user_degrees), required_level), Int2Rat(80))

\* variant: the guard for a profile without education is missing
education_match_unguarded(profile, job) == education_listed(profile, job)

_calculate_education_match(profile, job) ==
    IF profile.education = <<>> THEN Int2Rat(50)
    ELSE education_listed(profile, job)

\* variant: the desired locations are not looked at
location_match_without_desired(profile, job) ==
    IF job.remote_option
    THEN (IF profile.remote_preference \in {"remote", "flexible"} THEN Int2Rat(100) ELSE Int2Rat(80))
    ELSE IF job.location = "" \/ profile.location = "" THEN Int2Rat(70)
    ELSE LET job_loc == lower(job.location)
             user_loc == lower(profile.location)
             user_parts == SplitSet(ReplaceComma(user_loc))
             job_parts == SplitSet(ReplaceComma(job_loc))
         IN  IF Contains(job_loc, user_loc) \/ Contains(user_loc, job_loc) THEN Int2Rat(100)
             ELSE IF user_parts \cap job_parts # {} THEN Int2Rat(80)
             ELSE IF profile.remote_preference = "remote" THEN Int2Rat(40)
             ELSE IF profile.remote_preference = "flexible" THEN Int2Rat(60)
             ELSE Int2Rat(30)

_calculate_location_match(profile, job) ==
    IF job.remote_option
    THEN (IF profile.remote_preference \in {"remote", "flexible"} THEN Int2Rat(100) ELSE Int2Rat(80))
    ELSE IF job.location = "" \/ profile.location = "" THEN Int2Rat(70)
    ELSE LET job_loc == lower(job.location)
             user_loc == lower(profile.location)
             desired_locs == [ i \in 1..Len(profile.desired_locations) |->
                                 lower(profile.desired_locations[i]) ]
             user_parts == SplitSet(ReplaceComma(user_loc))
             job_parts == SplitSet(ReplaceComma(job_loc))
         IN  IF Contains(job_loc, user_loc) \/ Contains(user_loc, job_loc) THEN Int2Rat(100)
             ELSE IF \E i \in 1..Len(desired_locs) :
                        Contains(job_loc, desired_locs[i]) \/ Contains(desired_locs[i], job_loc)
             THEN Int2Rat(100)
             ELSE IF user_parts \cap job_parts # {} THEN Int2Rat(80)
             ELSE IF profile.remote_preference = "remote" THEN Int2Rat(40)
             ELSE IF profile.remote_preference = "flexible" THEN Int2Rat(60)
             ELSE Int2Rat(30)

\* variant: a missing bound of the job is not replaced by the other bound
salary_match_without_fallback(profile, job) ==
    IF ~Truthy(profile.min_salary) THEN Int2Rat(70)
    ELSE IF ~Truthy(job.salary_min) /\ ~Truthy(job.salary_max) THEN Int2Rat(60)
    ELSE LET job_max == job.salary_max
             job_min == job.salary_min
             user_min == profile.min_salary[1]
         IN  IF Truthy(job_max) /\ job_max[1] >= user_min
             THEN (IF Truthy(job_min) /\ job_min[1] >= user_min THEN Int2Rat(100) ELSE Int2Rat(85))
             ELSE IF Truthy(job_max) /\ 10 * job_max[1] >= 9 * user_min THEN Int2Rat(70)
             ELSE IF Truthy(job_max)
             THEN RMax(Int2Rat(0), RMul(Rat(job_max[1], user_min), Int2Rat(60)))
             ELSE Int2Rat(50)

_calculate_salary_match(profile, job) ==
    IF ~Truthy(profile.min_salary) THEN Int2Rat(70)
    ELSE IF ~Truthy(job.salary_min) /\ ~Truthy(job.salary_max) THEN Int2Rat(60)
    ELSE LET job_max == PyOr(job.salary_max, job.salary_min)
             job_min == PyOr(job.salary_min, job.salary_max)
             user_min == profile.min_salary[1]
         IN  IF Truthy(job_max) /\ job_max[1] >= user_min
             THEN (IF Truthy(job_min) /\ job_min[1] >= user_min THEN Int2Rat(100) ELSE Int2Rat(85))
             ELSE IF Truthy(job_max) /\ 10 * job_max[1] >= 9 * user_min THEN Int2Rat(70)
             ELSE IF Truthy(job_max)
             THEN RMax(Int2Rat(0), RMul(Rat(job_max[1], user_min), Int2Rat(60)))
             ELSE Int2Rat(50)

\* variant: the compensation score is read off the salary match
compensation_from_salary_match(profile, job) == _calculate_salary_match(profile, job)

_calculate_compensation_score(profile, job) ==
    IF ~Truthy(job.salary_max) /\ ~Truthy(job.salary_min) THEN Int2Rat(50)
    ELSE LET salary == PyOr(job.salary_max, job.salary_min)[1]
         IN  IF Truthy(profile.min_salary)
             THEN LET m == profile.min_salary[1]
                  IN  IF 10 * salary >= 13 * m THEN Int2Rat(100)
                      ELSE IF 10 * salary >= 11 * m THEN Int2Rat(90)
                      ELSE IF salary >= m THEN Int2Rat(80)
                      ELSE IF 10 * salary >= 9 * m THEN Int2Rat(70)
                      ELSE RMax(Int2Rat(20), RMul(Rat(salary, m), Int2Rat(60)))
             ELSE IF salary >= 200000 THEN Int2Rat(95)
             ELSE IF salary >= 150000 THEN Int2Rat(85)
             ELSE IF salary >= 120000 THEN Int2Rat(75)
             ELSE IF salary >= 90000 THEN Int2Rat(65)
             ELSE IF salary >= 60000 THEN Int2Rat(50)
             ELSE Int2Rat(40)

-----------------------------------------------------------------------------
(* JobMatcher: hiring likelihood, overall score, match_job.                *)

WEIGHTS ==
    [ skill_match |-> Rat(35, 100), experience_match |-> Rat(20, 100),
      education_match |-> Rat(10, 100), location_match |-> Rat(15, 100),
      salary_match |-> Rat(20, 100) ]

in_demand_skills ==
    { "python", "javascript", "aws", "kubernetes", "react",
      "machine learning", "data science", "golang", "rust" }

\* the value of `likelihood` before it is clamped; reads the MatchScore as
\* match_job has filled it so far
likelihood(profile, job, score) ==
    LET base_likelihood == RMul(score.overall_score, Rat(6, 10))
        skill_factor == RMul(score.skill_match_score, Rat(25, 100))
        exp_factor == RMul(score.experience_match_score, Rat(15, 100))
        hits == Cardinality({ i \in 1..Len(profile.skills) :
                                lower(profile.skills[i].name) \in in_demand_skills })
        demand_bonus == IF 2 * hits <= 10 THEN 2 * hits ELSE 10
        penalty == 3 * Len(score.missing_skills)
        missing_penalty == IF penalty <= 20 THEN penalty ELSE 20
    IN  RSub(RAdd(RAdd(RAdd(base_likelihood, skill_factor), exp_factor),
                  Int2Rat(demand_bonus)), Int2Rat(missing_penalty))

\* variant: the likelihood is returned as computed, without the final clamp
hiring_likelihood_unclamped(profile, job, score) == likelihood(profile, job, score)

_calculate_hiring_likelihood(profile, job, score) ==
    RMax(Int2Rat(5), RMin(Int2Rat(95), likelihood(profile, job, score)))

\* variant: the five sub-scores are averaged with equal weights
overall_score_unweighted(score) ==
    RMul(RAdd(RAdd(RAdd(RAdd(score.skill_match_score, score.experience_match_score),
                        score.education_match_score),
                   score.location_match_score),
              score.salary_match_score), Rat(1, 5))

\* the expression assigned to score.overall_score
overall_score(score) ==
    RAdd(RAdd(RAdd(RAdd(RMul(score.skill_match_score, WEIGHTS.skill_match),
                        RMul(score.experience_match_score, WEIGHTS.experience_match)),
                   RMul(score.education_match_score, WEIGHTS.education_match)),
              RMul(score.location_match_score, WEIGHTS.location_match)),
         RMul(score.salary_match_score, WEIGHTS.salary_match))

\* match_job on an Optional job (None is a null reference) at clock reading now.
\* Returns [exc, ret]: exc names the exception that propagates ("" for none),
\* ret is None or Some(MatchScore).  The statements run in the source's order.
\* lines 52-57: the five primary sub-scores, in a new MatchScore
sub_scores(profile, job, experience) ==
    [MatchScore EXCEPT
       !.skill_match_score = _calculate_skill_match(profile, job),
       !.experience_match_score = experience,
       !.education_match_score = _calculate_education_match(profile, job),
       !.location_match_score = _calculate_location_match(profile, job),
       !.salary_match_score = _calculate_salary_match(profile, job)]

\* lines 59-66
with_overall(score) == [score EXCEPT !.overall_score = overall_score(score)]

\* line 69: the likelihood is computed from the MatchScore as filled so far,
\* its missing_skills list still the empty default
with_likelihood(profile, job, score) ==
    [score EXCEPT !.hiring_likelihood = _calculate_hiring_likelihood(profile, job, score)]

\* lines 72-76
with_details(profile, job, score) ==
    Only({ [score EXCEPT !.compensation_score = _calculate_compensation_score(profile, job),
                         !.matched_skills = details.matched,
                         !.missing_skills = details.missing,
                         !.bonus_skills = details.bonus] :
             details \in { _get_skill_details(profile, job) } })

\* the statements of match_job after the experience score, in source order
filled(profile, job, experience) ==
    Only({ Only({ Only({ with_details(profile, job, s3) :
                           s3 \in { with_likelihood(profile, job, s2) } }) :
                    s2 \in { with_overall(s1) } }) :
             s1 \in { sub_scores(profile, job, experience) } })

\* JobMatcher(None): __init__ stores the argument as it is, so a matcher whose
\* profile is the null reference exists
NullProfile == [ null |-> TRUE ]

\* The _calculate_* calls that return before self.profile is dereferenced
\* when the profile is the null reference: _calculate_skill_match reads the
\* job first and returns 50 for a job without listed skills and without
\* description (lines 82-84 and 164-165); every other path reads
\* self.profile.skills; _calculate_experience_match reads
\* self.profile.total_experience_years first.
computed_before_profile(job) ==
    IF job.required_skills = <<>> /\ job.preferred_skills = <<>> /\ job.description = ""
    THEN 1 ELSE 0

\* `computed` counts the _calculate_* calls that have returned when match_job
\* ends: 7 when it returns, fewer when an exception propagates.
match_job(profile, job_opt, now) ==
    IF job_opt = None
    THEN [exc |-> "AttributeError", ret |-> None, computed |-> 0]
    ELSE IF profile = NullProfile
    THEN [exc |-> "AttributeError", ret |-> None,
          computed |-> computed_before_profile(job_opt[1])]
    ELSE Only({ IF experience.exc # ""
                THEN [exc |-> experience.exc, ret |-> None, computed |-> 1]
                ELSE [exc |-> "", computed |-> 7,
                      ret |-> Some(filled(profile, job_opt[1], experience.val))] :
                  experience \in { _calculate_experience_match(profile, job_opt[1], now) } })

-----------------------------------------------------------------------------
(* JobMatcher.rank_jobs.  The caller's list holds job references: 0 is the *)
(* null reference, r > 0 names the Job object store[r].  Every MatchScore  *)
(* object gets an object id from the allocation counter.                   *)

NullRef == 0

Deref(store, ref) == IF ref = NullRef THEN None ELSE Some(store[ref])

\* sort_keys.get(sort_by, sort_keys["overall"]) applied to a (job, score) pair
\* variant: the sort_by argument is ignored and the overall score is the key
key_func_overall_only(sort_by, pair) == pair.score.overall_score

key_func(sort_by, pair) ==
    CASE sort_by = "overall" -> pair.score.overall_score
      [] sort_by = "hiring_likelihood" -> pair.score.hiring_likelihood
      [] sort_by = "compensation" -> pair.score.compensation_score
      [] sort_by = "skill_match" -> pair.score.skill_match_score
      [] OTHER -> pair.score.overall_score

\* place of x in a list already in descending key order: behind every
\* element whose key is >= the key of x
RECURSIVE InsertDesc(_, _, _)
InsertDesc(sorted, x, sort_by) ==
    IF sorted = <<>> THEN <<x>>
    ELSE IF RGe(key_func(sort_by, Head(sorted)), key_func(sort_by, x))
    THEN <<Head(sorted)>> \o InsertDesc(Tail(sorted), x, sort_by)
    ELSE <<x>> \o sorted

\* variant: an ascending stable sort followed by a reversal of the list,
\* which also reverses the elements with equal keys
RECURSIVE SortDescReversed(_, _)
SortDescReversed(l, sort_by) ==
    IF l = <<>> THEN <<>>
    ELSE InsertDesc(SortDescReversed(Tail(l), sort_by), Head(l), sort_by)

\* list.sort(key=key_func, reverse=True): descending and stable
RECURSIVE SortDesc(_, _)
SortDesc(l, sort_by) ==
    IF l = <<>> THEN <<>>
    ELSE InsertDesc(SortDesc(SubSeq(l, 1, Len(l) - 1), sort_by), l[Len(l)], sort_by)

\* Returns [exc, ret, created, computed] from the outcomes of match_job on the
\* jobs of the list: ret is the sorted list of (job, score) pairs, created the
\* number of MatchScore objects the call has constructed, computed the count
\* of the match_job call that ended last.
ranked(outs, job_list, sort_by, alloc) ==
    LET failing == { i \in 1..Len(job_list) : outs[i].exc # "" }
        first_failing == CHOOSE i \in failing : \A k \in failing : i <= k
        scored_jobs == [ i \in 1..Len(job_list) |->
                           [job |-> job_list[i], oid |-> alloc + i, score |-> outs[i].ret[1]] ]
    IN  IF failing # {}
        THEN [exc |-> outs[first_failing].exc, ret |-> <<>>, created |-> first_failing,
              computed |-> outs[first_failing].computed]
        ELSE [exc |-> "", ret |-> SortDesc(scored_jobs, sort_by), created |-> Len(job_list),
              computed |-> IF job_list = <<>> THEN 0 ELSE outs[Len(job_list)].computed]

\* the list without the later occurrences of a reference
RECURSIVE Dedup(_)
Dedup(l) ==
    IF l = <<>> THEN <<>>
    ELSE LET front == Dedup(SubSeq(l, 1, Len(l) - 1))
         IN  IF \E k \in 1..Len(front) : front[k] = l[Len(l)]
             THEN front ELSE Append(front, l[Len(l)])

\* variant: the scores are collected per job (as in a dict keyed by the job),
\* so a job listed twice is scored and returned once
rank_outcome_per_distinct_job(profile, store, job_list, sort_by, now, alloc) ==
    Only({ ranked([ i \in 1..Len(distinct) |->
                      match_job(profile, Deref(store, distinct[i]), now) ],
                  distinct, sort_by, alloc) :
             distinct \in { Dedup(job_list) } })

\* line 467 and lines 469-477: every job of the list is scored, in list
\* order, before anything is sorted
rank_outcome(profile, store, job_list, sort_by, now, alloc) ==
    Only({ ranked(outs, job_list, sort_by, alloc) :
             outs \in { [ i \in 1..Len(job_list) |->
                            match_job(profile, Deref(store, job_list[i]), now) ] } })

\* variant: the caller's list is sorted in place along with the result
rank_jobs_sorting_input(profile, store, job_list, sort_by, now, alloc) ==
    LET out == rank_outcome(profile, store, job_list, sort_by, now, alloc)
    IN  [ out |-> out,
          job_list |-> IF out.exc # "" THEN job_list
                       ELSE [ k \in 1..Len(out.ret) |-> out.ret[k].job ] ]

\* The call and its effect on the caller's list: the comprehension builds a
\* new list and sort() works on that one, so job_list is left as it was.
rank_jobs(profile, store, job_list, sort_by, now, alloc) ==
    [ out |-> rank_outcome(profile, store, job_list, sort_by, now, alloc),
      job_list |-> job_list ]

-----------------------------------------------------------------------------
(* Inputs.  The dataclasses enforce no invariant, so the inputs include a  *)
(* profile whose Experience ends before it starts and a null job reference. *)

MaxJobs == 2        \* longest list handed to rank_jobs
MaxTicks == 1       \* days the wall clock may advance
MaxAlloc == 2       \* MatchScore objects constructed in one behaviour

Now0 == 3653        \* clock reading (day number) at the start

SkillChoices ==
    { <<>>,
      << [name |-> "Python", level |-> "EXPERT"],
         [name |-> "Kubernetes", level |-> "INTERMEDIATE"] >>,
      << [name |-> "Python", level |-> "ADVANCED"], [name |-> "AWS", level |-> "BEGINNER"],
         [name |-> "Docker", level |-> "INTERMEDIATE"], [name |-> "K8s", level |-> "EXPERT"],
         [name |-> "Rust", level |-> "BEGINNER"], [name |-> "React", level |-> "BEGINNER"],
         [name |-> "Golang", level |-> "BEGINNER"], [name |-> "JavaScript", level |-> "BEGINNER"] >> }

ExperienceChoices ==
    { <<>>,
      << [start_date |-> 0, end_date |-> Some(1461)] >>,
      << [start_date |-> 0, end_date |-> Some(731)],
         [start_date |-> Now0 - 365, end_date |-> None] >>,
      << [start_date |-> 2000, end_date |-> Some(1000)] >> }

EducationChoices ==
    { <<>>, << [degree |-> "Bachelor of Science"] >>, << [degree |-> "Diploma"] >> }

LocationChoices ==
    { [location |-> "", desired_locations |-> <<>>],
      [location |-> "San Francisco, CA", desired_locations |-> <<>>],
      [location |-> "Dallas, TX", desired_locations |-> <<"Austin">>] }

SalaryChoices == { None, Some(150000) }

PreferenceChoices == { "flexible", "on_site", "remote" }

MkProfile(sk, ex, ed, lo, de, sa, pr) ==
    [ skills |-> sk, experiences |-> ex, education |-> ed, location |-> lo,
      desired_locations |-> de, min_salary |-> sa, remote_preference |-> pr ]

\* a profile with every optional datum present
TypicalProfile ==
    MkProfile(<< [name |-> "Python", level |-> "EXPERT"],
                 [name |-> "Kubernetes", level |-> "INTERMEDIATE"] >>,
              << [start_date |-> 0, end_date |-> Some(1461)] >>,
              << [degree |-> "Bachelor of Science"] >>,
              "San Francisco, CA", <<>>, Some(150000), "flexible")

\* UserProfile() with the dataclass defaults: every optional datum absent
EmptyProfile == MkProfile(<<>>, <<>>, <<>>, "", <<>>, None, "flexible")

ProfileFields ==
    { "skills", "experiences", "education", "location", "desired_locations",
      "min_salary", "remote_preference" }

Differing(p, q) == { f \in ProfileFields : p[f] # q[f] }

AllProfiles ==
    { MkProfile(sk, ex, ed, lo.location, lo.desired_locations, sa, pr) :
        sk \in SkillChoices, ex \in ExperienceChoices, ed \in EducationChoices,
        lo \in LocationChoices, sa \in SalaryChoices, pr \in PreferenceChoices }

\* every combination of absent and present data, and the typical profile
\* with one datum (location and desired locations together) replaced
ProfileSpace ==
    { p \in AllProfiles :
        \/ \A f \in ProfileFields : p[f] \in {TypicalProfile[f], EmptyProfile[f]}
        \/ Differing(p, TypicalProfile) \subseteq {"skills"}
        \/ Differing(p, TypicalProfile) \subseteq {"experiences"}
        \/ Differing(p, TypicalProfile) \subseteq {"education"}
        \/ Differing(p, TypicalProfile) \subseteq {"location", "desired_locations"}
        \/ Differing(p, TypicalProfile) \subseteq {"remote_preference"} }

\* the profiles that are ranked against lists of more than one job
RankProfiles ==
    { p \in ProfileSpace :
        /\ Differing(p, TypicalProfile) \subseteq {"skills", "experiences"}
        /\ Len(p.skills) <= 2
        /\ p.experiences # <<>> /\ p.experiences[1].end_date # None }

JobCatalog ==
    << [ id |-> "j1", location |-> "San Francisco, CA",
         description |-> "5+ years of experience. Bachelor degree required",
         requirements |-> <<>>,
         required_skills |-> <<"Python", "AWS">>, preferred_skills |-> <<"Docker">>,
         salary_min |-> Some(160000), salary_max |-> Some(190000),
         remote_option |-> FALSE, experience_level |-> "Senior" ],
       [ id |-> "j2", location |-> "", description |-> "", requirements |-> <<>>,
         required_skills |-> <<>>, preferred_skills |-> <<>>,
         salary_min |-> None, salary_max |-> None,
         remote_option |-> FALSE, experience_level |-> "" ],
       [ id |-> "j3", location |-> "", description |-> "Python shop",
         requirements |-> <<"At least 0 years">>,
         required_skills |-> <<>>, preferred_skills |-> <<>>,
         salary_min |-> None, salary_max |-> Some(220000),
         remote_option |-> TRUE, experience_level |-> "" ],
       [ id |-> "j4", location |-> "Austin, TX", description |-> "",
         requirements |-> <<"PhD must have", "minimum 3 years">>,
         required_skills |-> <<"Kubernetes", "Rust", "Go">>, preferred_skills |-> <<>>,
         salary_min |-> Some(100000), salary_max |-> Some(120000),
         remote_option |-> FALSE, experience_level |-> "mid" ],
       [ id |-> "j5", location |-> "Boston", description |-> "",
         requirements |-> <<>>,
         required_skills |-> <<>>, preferred_skills |-> <<"py">>,
         salary_min |-> Some(100000), salary_max |-> None,
         remote_option |-> FALSE, experience_level |-> "Entry level" ] >>

Refs == {NullRef} \cup (1..Len(JobCatalog))

\* all lists of references of length 0..n
RECURSIVE ListsUpTo(_)
ListsUpTo(n) ==
    IF n = 0 THEN { <<>> }
    ELSE LET shorter == ListsUpTo(n - 1)
         IN  shorter \cup { Append(l, r) : l \in { x \in shorter : Len(x) = n - 1 }, r \in Refs }

SortBys == { "overall", "hiring_likelihood", "compensation", "skill_match" }

-----------------------------------------------------------------------------
(* State.                                                                  *)

VARIABLES
    profile,      \* JobMatcher.profile
    job_store,    \* the Job objects, by reference
    jobs,         \* the caller's list of job references
    now,          \* datetime.now(), as a day number
    allocated,    \* number of MatchScore objects constructed so far
    res,          \* the latest call and its outcome
    args,         \* the arguments of a call of a helper method on its own
    providers,    \* JobAggregator.providers
    search,       \* the call of JobAggregator.search_jobs in progress or returned
    applicant,    \* the AutoApplicant instance
    applications, \* the Application objects handed to the AutoApplicant
    replies,      \* per application: what the user and the provider answer
    clock,        \* datetime.now(), in seconds
    attempt_log,  \* application_log.jsonl
    outcome,      \* the latest call of AutoApplicant.apply and what it did
    successes,    \* the times at which calls of apply have returned success
    batch,        \* the call of AutoApplicant.apply_batch in progress or returned
    tally         \* number of calls of apply on its own and of pauses so far

\* the state of the AutoApplicant and of its environment
apply_vars ==
    <<applicant, applications, replies, clock, attempt_log, outcome, successes, batch, tally>>

\* the variables that the operations of the JobMatcher leave alone
other_vars == <<args, providers, search, apply_vars>>

vars == <<profile, job_store, jobs, now, allocated, res, other_vars>>

NoArgs == <<>>

\* no call of search_jobs has been made
NoSearch ==
    [ pc |-> "idle", parallel |-> FALSE, limit |-> 0, limit_per_provider |-> 0,
      active |-> <<>>, done |-> {}, collected |-> {}, all_jobs |-> <<>>,
      errors |-> <<>>, exc |-> "", result |-> <<>> ]

\* no JobAggregator is in use
NoAggregator == providers = <<>> /\ search = NoSearch

\* no call of apply has been made
NoOutcome ==
    [ op |-> "none", app |-> 0, at |-> 0, ends |-> 0, success |-> FALSE, by |-> "",
      asked |-> FALSE, logged |-> FALSE, posted |-> FALSE, prepared |-> FALSE ]

\* no call of apply_batch has been made
NoBatch == [ pc |-> "idle", attempted |-> <<>>, queue |-> <<>>, results |-> <<>> ]

\* no AutoApplicant is in use
NoApplicant ==
    /\ applicant = <<>> /\ applications = <<>> /\ replies = <<>>
    /\ clock = 0 /\ attempt_log = <<>> /\ outcome = NoOutcome /\ successes = <<>>
    /\ batch = NoBatch /\ tally = 0

\* the readings of datetime.now() a scoring call makes: one per Experience
\* without end date (Experience.duration_years), none for a null job
clock_reads(prof, now_) ==
    IF prof = NullProfile THEN {}
    ELSE IF \E i \in 1..Len(prof.experiences) : prof.experiences[i].end_date = None
    THEN {now_} ELSE {}

NoCall ==
    [op |-> "none", idx |-> 0, sort_by |-> "", reads |-> {}, exc |-> "", computed |-> 0,
     ret |-> <<>>]

Init ==
    /\ profile \in ProfileSpace
    /\ job_store = JobCatalog
    /\ jobs \in ListsUpTo(MaxJobs)
    /\ Len(jobs) <= 1 \/ profile \in RankProfiles
    /\ now = Now0
    /\ allocated = 0
    /\ res = NoCall
    /\ args = NoArgs
    /\ NoAggregator
    /\ NoApplicant

\* the caller calls matcher.match_job(jobs[i])
MatchJob(i) ==
    /\ allocated + 1 <= MaxAlloc
    /\ \E out \in { match_job(profile, Deref(job_store, jobs[i]), now) } :
         res' = [op |-> "match_job", idx |-> i, sort_by |-> "",
                 reads |-> IF jobs[i] = NullRef THEN {} ELSE clock_reads(profile, now),
                 exc |-> out.exc, computed |-> out.computed,
                 ret |-> IF out.exc # "" THEN <<>>
                         ELSE << [job |-> jobs[i], oid |-> allocated + 1, score |-> out.ret[1]] >>]
    /\ allocated' = allocated + 1
    /\ UNCHANGED <<profile, job_store, jobs, now, other_vars>>

\* the caller calls matcher.rank_jobs(jobs, sort_by)
RankJobs(sort_by) ==
    /\ allocated + Len(jobs) <= MaxAlloc
    /\ \E call \in { rank_jobs(profile, job_store, jobs, sort_by, now, allocated) } :
         /\ res' = [op |-> "rank_jobs", idx |-> 0, sort_by |-> sort_by,
                    reads |-> IF \A i \in 1..call.out.created : jobs[i] = NullRef
                              THEN {} ELSE clock_reads(profile, now),
                    exc |-> call.out.exc, computed |-> call.out.computed,
                    ret |-> call.out.ret]
         /\ allocated' = allocated + call.out.created
         /\ jobs' = call.job_list
    /\ UNCHANGED <<profile, job_store, now, other_vars>>

\* a day of wall-clock time passes
Tick ==
    /\ now < Now0 + MaxTicks
    /\ now' = now + 1
    /\ UNCHANGED <<profile, job_store, jobs, allocated, res, other_vars>>

Next ==
    \/ \E i \in 1..Len(jobs) : MatchJob(i)
    \/ \E sort_by \in SortBys : RankJobs(sort_by)
    \/ Tick

Spec == Init /\ [][Next]_vars

-----------------------------------------------------------------------------
(* Properties of match_job.                                                *)

\* the MatchScore objects the latest call has returned
Returned == { res.ret[k].score : k \in 1..Len(res.ret) }

\* data-model invariant of Experience at the clock readings of a call:
\* start date <= end date, or <= now for an Experience without end date
ValidExperiences(prof, reads) ==
    \A i \in 1..Len(prof.experiences) :
        LET e == prof.experiences[i]
        IN  IF e.end_date # None THEN e.start_date <= e.end_date[1]
            ELSE \A t \in reads : e.start_date <= t

\* data-model invariant of salaries: those that are given are not negative
NonNegative(opt) == opt = None \/ opt[1] >= 0

ValidInputs ==
    /\ ValidExperiences(profile, res.reads)
    /\ NonNegative(profile.min_salary)
    /\ \A k \in 1..Len(res.ret) :
         /\ NonNegative(job_store[res.ret[k].job].salary_min)
         /\ NonNegative(job_store[res.ret[k].job].salary_max)

Within(x, lo, hi) == RLe(Int2Rat(lo), x) /\ RLe(x, Int2Rat(hi))

\* C1: for a Profile and a Job that satisfy the data-model invariants, every
\* MatchScore that match_job returns has its skill, experience, education,
\* location, salary, culture, compensation and overall scores within
\* [0, 100] and its hiring_likelihood within [5, 95].
C1_ScoresWithinBounds ==
    ValidInputs =>
        \A s \in Returned :
            /\ Within(s.skill_match_score, 0, 100)
            /\ Within(s.experience_match_score, 0, 100)
            /\ Within(s.education_match_score, 0, 100)
            /\ Within(s.location_match_score, 0, 100)
            /\ Within(s.salary_match_score, 0, 100)
            /\ Within(s.culture_fit_score, 0, 100)
            /\ Within(s.compensation_score, 0, 100)
            /\ Within(s.overall_score, 0, 100)
            /\ Within(s.hiring_likelihood, 5, 95)

\* C1 witness: match_job has returned, for valid inputs, a MatchScore whose
\* hiring_likelihood sits on the upper clamp and whose experience score is
\* strictly inside its range.
C1_Witness ==
    /\ res.op = "match_job" /\ res.exc = "" /\ ValidInputs
    /\ \E s \in Returned :
         /\ s.hiring_likelihood = Int2Rat(95)
         /\ RLt(Int2Rat(0), s.experience_match_score)
         /\ RLt(s.experience_match_score, Int2Rat(100))

\* the weighted sum of the five primary sub-scores stored in s
WeightedSum(s) ==
    RAdd(RAdd(RAdd(RAdd(RMul(Rat(35, 100), s.skill_match_score),
                        RMul(Rat(20, 100), s.experience_match_score)),
                   RMul(Rat(10, 100), s.education_match_score)),
              RMul(Rat(15, 100), s.location_match_score)),
         RMul(Rat(20, 100), s.salary_match_score))

\* C2: in every match_job result overall_score equals 0.35*skill_match_score
\* + 0.20*experience_match_score + 0.10*education_match_score +
\* 0.15*location_match_score + 0.20*salary_match_score of the same MatchScore;
\* compensation_score, culture_fit_score and hiring_likelihood are no terms of
\* the sum.
C2_OverallIsWeightedSum ==
    \A s \in Returned : s.overall_score = WeightedSum(s)

\* C2 witness: match_job has returned a MatchScore whose five primary
\* sub-scores are pairwise different and whose compensation_score and
\* hiring_likelihood are not zero.
C2_Witness ==
    /\ res.op = "match_job" /\ res.exc = ""
    /\ \E s \in Returned :
         /\ Cardinality({ s.skill_match_score, s.experience_match_score,
                          s.education_match_score, s.location_match_score,
                          s.salary_match_score }) = 5
         /\ s.compensation_score # Int2Rat(0)
         /\ s.hiring_likelihood # Int2Rat(0)

\* the hiring likelihood as documented, from the finished MatchScore s
DocumentedLikelihood(prof, s) ==
    LET in_demand == Cardinality({ i \in 1..Len(prof.skills) :
                                     lower(prof.skills[i].name) \in in_demand_skills })
        demand_bonus == IF 2 * in_demand <= 10 THEN 2 * in_demand ELSE 10
        missing_penalty == IF 3 * Len(s.missing_skills) <= 20
                           THEN 3 * Len(s.missing_skills) ELSE 20
        raw == RAdd(RAdd(RAdd(RMul(Rat(6, 10), s.overall_score),
                              RMul(Rat(25, 100), s.skill_match_score)),
                         RMul(Rat(15, 100), s.experience_match_score)),
                    Int2Rat(demand_bonus - missing_penalty))
    IN  RMax(Int2Rat(5), RMin(Int2Rat(95), raw))

\* C3: the hiring_likelihood stored in a MatchScore returned by match_job
\* equals clamp(0.6*overall + 0.25*skill_match + 0.15*experience_match +
\* demand_bonus - missing_penalty, 5, 95) with demand_bonus = min(10, 2 *
\* number of in-demand profile skills) and missing_penalty = min(20, 3 *
\* length of the missing_skills list of that same MatchScore).
C3_HiringLikelihoodFormula ==
    \A s \in Returned : s.hiring_likelihood = DocumentedLikelihood(profile, s)

\* C4: two calls to match_job on the same (profile, job) pair return identical
\* MatchScore values whatever happens between the calls, the passage of
\* wall-clock time with an ongoing Experience in the profile included.
C4_RepeatedCallsAgree ==
    [][ ( /\ res.op = "match_job" /\ res.exc = ""
          /\ res'.op = "match_job" /\ res'.exc = ""
          /\ allocated' # allocated
          /\ res'.ret[1].job = res.ret[1].job )
        => res'.ret[1].score = res.ret[1].score ]_vars

\* C10: match_job does not raise because data is missing: for every
\* combination of absent optional data of the profile and of the job it
\* returns a MatchScore, with education 50 when no education is listed,
\* location 70 when a location is empty and the job is not remote, salary 70
\* without a salary expectation and 60 with an expectation but no job salary,
\* and compensation 50 without a job salary.
C10_MissingDataDefaults ==
    ( /\ res.op = "match_job"
      /\ jobs[res.idx] # NullRef
      /\ ValidExperiences(profile, res.reads) )
    => /\ res.exc = ""
       /\ Len(res.ret) = 1
       /\ LET s == res.ret[1].score
              job == job_store[jobs[res.idx]]
              no_job_salary == job.salary_min = None /\ job.salary_max = None
          IN  /\ profile.education = <<>> => s.education_match_score = Int2Rat(50)
              /\ (~job.remote_option /\ (job.location = "" \/ profile.location = ""))
                   => s.location_match_score = Int2Rat(70)
              /\ profile.min_salary = None => s.salary_match_score = Int2Rat(70)
              /\ (profile.min_salary # None /\ no_job_salary)
                   => s.salary_match_score = Int2Rat(60)
              /\ no_job_salary => s.compensation_score = Int2Rat(50)

\* C10 witness: match_job has returned a MatchScore for a profile without
\* skills, experiences, education, location and salary expectation and a job
\* without skills, description, requirements, salary bounds, location and
\* experience level.
C10_Witness ==
    /\ res.op = "match_job" /\ res.exc = "" /\ Len(res.ret) = 1
    /\ profile.skills = <<>> /\ profile.experiences = <<>> /\ profile.education = <<>>
    /\ profile.location = "" /\ profile.min_salary = None
    /\ LET job == job_store[res.ret[1].job]
       IN  /\ job.required_skills = <<>> /\ job.preferred_skills = <<>>
           /\ job.description = "" /\ job.requirements = <<>>
           /\ job.salary_min = None /\ job.salary_max = None
           /\ job.location = "" /\ job.experience_level = ""
    /\ res.ret[1].score.education_match_score = Int2Rat(50)
    /\ res.ret[1].score.location_match_score = Int2Rat(70)

-----------------------------------------------------------------------------
(* Properties of rank_jobs.                                                *)

\* the score that sort_by selects, for the four documented keys
SelectedKey(sort_by, s) ==
    CASE sort_by = "overall" -> s.overall_score
      [] sort_by = "hiring_likelihood" -> s.hiring_likelihood
      [] sort_by = "compensation" -> s.compensation_score
      [] sort_by = "skill_match" -> s.skill_match_score

Ranked == res.op = "rank_jobs" /\ res.exc = ""

\* C5: rank_jobs returns its pairs in descending order of the selected key
\* (overall_score, hiring_likelihood, compensation_score or skill_match_score
\* for sort_by overall, hiring_likelihood, compensation, skill_match): every
\* adjacent pair of the output has first key >= second key.
C5_RankedDescending ==
    Ranked =>
        \A k \in 1..(Len(res.ret) - 1) :
            RGe(SelectedKey(res.sort_by, res.ret[k].score),
                SelectedKey(res.sort_by, res.ret[k + 1].score))

\* C5 witness: rank_jobs has ranked two jobs by compensation and has put the
\* second job of the input first, although its overall score is the lower one.
C5_Witness ==
    /\ Ranked /\ res.sort_by = "compensation" /\ Len(res.ret) = 2
    /\ res.ret[1].oid > res.ret[2].oid
    /\ RGt(res.ret[1].score.compensation_score, res.ret[2].score.compensation_score)
    /\ RLt(res.ret[1].score.overall_score, res.ret[2].score.overall_score)

\* C6: rank_jobs is stable: two jobs with equal values of the selected key
\* appear in the output in their relative order of the input list (object
\* ids are handed out in input order).
C6_RankedStable ==
    Ranked =>
        \A k, l \in 1..Len(res.ret) :
            ( /\ k < l
              /\ SelectedKey(res.sort_by, res.ret[k].score)
                   = SelectedKey(res.sort_by, res.ret[l].score) )
            => res.ret[k].oid < res.ret[l].oid

\* C6 witness: rank_jobs has ranked two different jobs that tie on the
\* selected key and differ in another score.
C6_Witness ==
    /\ Ranked /\ Len(res.ret) = 2
    /\ res.ret[1].job # res.ret[2].job
    /\ SelectedKey(res.sort_by, res.ret[1].score) = SelectedKey(res.sort_by, res.ret[2].score)
    /\ res.ret[1].score # res.ret[2].score
    /\ res.ret[1].oid < res.ret[2].oid

\* number of occurrences of x in the list l
Count(l, x) == Cardinality({ k \in 1..Len(l) : l[k] = x })

\* a step that is a call of rank_jobs
RankStep == res'.op = "rank_jobs" /\ <<res, allocated>>' # <<res, allocated>>

\* C7: rank_jobs returns exactly one (job, score) pair per input job: the
\* output jobs are a permutation of the input list (duplicates kept), each
\* paired with the MatchScore that match_job computes for that job, and
\* match_job is invoked once per job; an empty list gives an empty result and
\* no error.
C7_OnePairPerJob ==
    [][ RankStep =>
          /\ jobs = <<>> => (res'.exc = "" /\ res'.ret = <<>>)
          /\ res'.exc = "" =>
               /\ Len(res'.ret) = Len(jobs)
               /\ \A r \in Refs :
                    Count([ k \in 1..Len(res'.ret) |-> res'.ret[k].job ], r) = Count(jobs, r)
               /\ \A k \in 1..Len(res'.ret) :
                    res'.ret[k].score
                      = match_job(profile, Deref(job_store, res'.ret[k].job), now).ret[1]
               /\ allocated' - allocated = Len(jobs)
               /\ { res'.ret[k].oid : k \in 1..Len(res'.ret) }
                    = (allocated + 1)..(allocated + Len(jobs)) ]_vars

\* C7 witness: rank_jobs has ranked a list that names the same job twice and
\* has returned two pairs, with two MatchScore objects.
C7_Witness ==
    /\ Ranked /\ Len(jobs) = 2 /\ jobs[1] = jobs[2]
    /\ Len(res.ret) = 2 /\ res.ret[1].job = res.ret[2].job
    /\ res.ret[1].oid # res.ret[2].oid

\* C8: match_job and rank_jobs do not mutate their inputs: the Profile, every
\* Job and the caller's jobs list (elements and order) stay as they are, and
\* every call returns freshly created MatchScore objects, shared with no
\* earlier result and not with each other.
C8_InputsNotMutated ==
    [][ /\ profile' = profile
        /\ job_store' = job_store
        /\ jobs' = jobs
        /\ \A k \in 1..Len(res.ret) : res.ret[k].oid <= allocated
        /\ <<res, allocated>>' # <<res, allocated>> =>
             /\ \A k \in 1..Len(res'.ret) : res'.ret[k].oid > allocated
             /\ \A k, l \in 1..Len(res'.ret) : k # l => res'.ret[k].oid # res'.ret[l].oid
      ]_vars

\* C8 witness: rank_jobs has returned the two jobs of the caller's list in
\* the other order, and the caller's list is as it was.
C8_Witness ==
    /\ Ranked /\ Len(res.ret) = 2 /\ Len(jobs) = 2
    /\ res.ret[1].oid > res.ret[2].oid
    /\ res.ret[1].job = jobs[2] /\ res.ret[2].job = jobs[1] /\ jobs[1] # jobs[2]

\* whether scoring job_list[i] raises
Raises(i) == match_job(profile, Deref(job_store, jobs[i]), now).exc # ""

\* C9: in rank_jobs an error raised while scoring one job of the batch does
\* not abort the batch: the other jobs are still scored and returned.
C9_ErrorDoesNotAbortBatch ==
    ( /\ res.op = "rank_jobs"
      /\ \E i \in 1..Len(jobs) : Raises(i)
      /\ \E i \in 1..Len(jobs) : ~Raises(i) )
    => /\ res.exc = ""
       /\ \A i \in 1..Len(jobs) :
            ~Raises(i) => \E k \in 1..Len(res.ret) : res.ret[k].job = jobs[i]

-----------------------------------------------------------------------------
(* Null references.  JobMatcher.__init__ accepts any argument, so the      *)
(* matchers that exist include one constructed on the null reference.      *)

InitNull ==
    /\ profile \in {NullProfile, TypicalProfile, EmptyProfile}
    /\ job_store = JobCatalog
    /\ jobs \in ListsUpTo(MaxJobs)
    /\ Len(jobs) <= 1 \/ profile = TypicalProfile
    /\ now = Now0
    /\ allocated = 0
    /\ res = NoCall
    /\ args = NoArgs
    /\ NoAggregator
    /\ NoApplicant

SpecNull == InitNull /\ [][Next]_vars

\* the exceptions that report an invalid argument
InvalidArgument == { "ValueError", "TypeError" }

\* the latest call was handed a null job reference
NullJobCall ==
    \/ res.op = "match_job" /\ jobs[res.idx] = NullRef
    \/ res.op = "rank_jobs" /\ \E i \in 1..Len(jobs) : jobs[i] = NullRef

\* C11: a null Profile or null Job reference is rejected fail-fast with an
\* invalid-argument error: no JobMatcher is constructed on a null profile,
\* and match_job / rank_jobs called with a null job raise an invalid-argument
\* error before any sub-score is computed and return no partial result.
C11_NullReferenceRejected ==
    /\ profile # NullProfile
    /\ NullJobCall =>
         /\ res.exc \in InvalidArgument
         /\ res.computed = 0
         /\ res.ret = <<>>

-----------------------------------------------------------------------------
(* _skills_match as a function of two lower-cased skill names.  The callers *)
(* hand it lower-cased names only (lines 94-98, 105-110, 431-452).          *)

\* the canonical terms and the aliases of the table
CanonicalTerms == { variations[k].base : k \in 1..Len(variations) }

AliasesOf(term) ==
    UNION { variations[k].variants : k \in { n \in 1..Len(variations) : variations[n].base = term } }

TableNames == CanonicalTerms \cup UNION { AliasesOf(term) : term \in CanonicalTerms }

\* names outside the table: of at most 3 characters and longer, some of them
\* substrings of table names or of each other
OtherNames == { "go", "sql", "c++", "java", "rust", "script", "learning", "postgresql 14" }

SkillNames == TableNames \cup OtherNames

InitPairs ==
    /\ profile = EmptyProfile
    /\ job_store = JobCatalog
    /\ jobs = <<>>
    /\ now = Now0
    /\ allocated = 0
    /\ res = NoCall
    /\ args \in SkillNames \X SkillNames
    /\ NoAggregator
    /\ NoApplicant

\* self._skills_match(skill1, skill2)
SkillsMatch ==
    /\ res' = [op |-> "_skills_match", idx |-> 0, sort_by |-> "", reads |-> {}, exc |-> "",
               computed |-> 0, ret |-> << _skills_match(args[1], args[2]) >>]
    /\ UNCHANGED <<profile, job_store, jobs, now, allocated, args, providers, search, apply_vars>>

NextPairs == SkillsMatch

SpecPairs == InitPairs /\ [][NextPairs]_vars

\* the latest call is _skills_match(a, b)
PairCall(a, b) == res.op = "_skills_match" /\ args = <<a, b>>

\* C12: _skills_match(a, b) = _skills_match(b, a) for all pairs of lowercase
\* skill names, the canonical terms and aliases of the synonym table and
\* strings shorter and longer than 3 characters among them; and
\* _skills_match(a, a) holds for every name.
C12_SkillsMatchSymmetric ==
    \A a \in SkillNames, b \in SkillNames :
        PairCall(a, b) =>
            /\ res.ret[1] = _skills_match(b, a)
            /\ a = b => res.ret[1]

\* C12 witness: _skills_match has been called with an alias first and its
\* canonical term second, neither a substring of the other, and has held.
C12_Witness ==
    /\ PairCall("k8s", "kubernetes")
    /\ res.ret[1]
    /\ ~Contains("kubernetes", "k8s")

-----------------------------------------------------------------------------
(* Skill scoring and skill breakdown of match_job, on profiles and jobs    *)
(* that differ in their skills only.                                       *)

SkillLists ==
    { <<>>,
      << [name |-> "Python", level |-> "EXPERT"],
         [name |-> "Kubernetes", level |-> "INTERMEDIATE"] >>,
      << [name |-> "JavaScript", level |-> "ADVANCED"] >>,
      << [name |-> "Python", level |-> "EXPERT"], [name |-> "PY", level |-> "BEGINNER"],
         [name |-> "python", level |-> "ADVANCED"], [name |-> "Docker", level |-> "BEGINNER"] >>,
      << [name |-> "React Native", level |-> "INTERMEDIATE"],
         [name |-> "Go", level |-> "EXPERT"], [name |-> "aws", level |-> "BEGINNER"] >> }

SkillProfiles == { [TypicalProfile EXCEPT !.skills = sk] : sk \in SkillLists }

\* Job(id=.., description=.., required_skills=.., preferred_skills=..)
MkSkillJob(id, description, required_skills, preferred_skills) ==
    [ id |-> id, location |-> "", description |-> description, requirements |-> <<>>,
      required_skills |-> required_skills, preferred_skills |-> preferred_skills,
      salary_min |-> None, salary_max |-> None,
      remote_option |-> FALSE, experience_level |-> "" ]

SkillCatalog ==
    << MkSkillJob("s1", "", <<"Python", "AWS">>, <<"Docker">>),
       MkSkillJob("s2", "", <<>>, <<>>),
       MkSkillJob("s3", "We use Python and Docker", <<>>, <<>>),
       MkSkillJob("s4", "", <<"JS", "ECMAScript">>, <<>>),
       MkSkillJob("s5", "Python", <<"Python">>, <<>>),
       MkSkillJob("s6", "", <<>>, <<"K8s", "React">>),
       MkSkillJob("s7", "", <<"Python", "Kubernetes", "React">>, <<"python", "Rust">>),
       MkSkillJob("s8", "", <<"Amazon Web Services", "Golang">>, <<"Docker", "go">>),
       MkSkillJob("s9", "", <<"Rust", "RUST">>, <<>>),
       MkSkillJob("s10", "", <<>>, <<"Docker", "py">>),
       MkSkillJob("s11", "", <<"Python">>, <<"Docker">>) >>

InitSkills ==
    /\ profile \in SkillProfiles
    /\ job_store = SkillCatalog
    /\ jobs \in { <<r>> : r \in 1..Len(SkillCatalog) }
    /\ now = Now0
    /\ allocated = 0
    /\ res = NoCall
    /\ args = NoArgs
    /\ NoAggregator
    /\ NoApplicant

SpecSkills == InitSkills /\ [][Next]_vars

\* the jobs of the MatchScore objects the latest call has returned
Scored == { [job |-> job_store[res.ret[k].job], score |-> res.ret[k].score] :
              k \in 1..Len(res.ret) }

\* a job skill and a profile skill name are equivalent, whatever their case
Equivalent(job_skill, name) == _skills_match(lower(job_skill), lower(name))

\* number of the skills of the list equivalent to some profile skill name
EquivalentCount(prof, skill_list) ==
    Cardinality({ i \in 1..Len(skill_list) :
                    \E n \in 1..Len(prof.skills) :
                        Equivalent(skill_list[i], prof.skills[n].name) })

\* points * (skills of the list matched / skills in the list), 0 for no list
Share(points, prof, skill_list) ==
    IF skill_list = <<>> THEN Int2Rat(0)
    ELSE RMul(Int2Rat(points), Rat(EquivalentCount(prof, skill_list), Len(skill_list)))

\* C13: when the job lists at least one required or preferred skill,
\* skill_match_score = min(100, 70 * (required skills equivalent to some
\* profile skill name / number of required skills) + 30 * (preferred skills
\* equivalent to some profile skill name / number of preferred skills)); for
\* required [Python, AWS], preferred [Docker] and profile skills [Python,
\* Kubernetes] it is 35.
C13_ListedSkillScore ==
    \A r \in Scored :
        /\ (r.job.required_skills # <<>> \/ r.job.preferred_skills # <<>>) =>
             r.score.skill_match_score
               = RMin(Int2Rat(100), RAdd(Share(70, profile, r.job.required_skills),
                                         Share(30, profile, r.job.preferred_skills)))
        /\ ( /\ r.job.required_skills = <<"Python", "AWS">>
             /\ r.job.preferred_skills = <<"Docker">>
             /\ [ n \in 1..Len(profile.skills) |-> profile.skills[n].name ]
                  = <<"Python", "Kubernetes">> ) =>
             r.score.skill_match_score = Int2Rat(35)

\* C13 witness: match_job has scored the job with required [Python, AWS] and
\* preferred [Docker] for the profile with skills [Python, Kubernetes], and
\* the skill score is 35.
C13_Witness ==
    /\ res.op = "match_job" /\ res.exc = ""
    /\ Len(profile.skills) = 2
    /\ profile.skills[1].name = "Python" /\ profile.skills[2].name = "Kubernetes"
    /\ \E r \in Scored :
         /\ r.job.id = "s1"
         /\ r.score.skill_match_score = Int2Rat(35)

\* C14: a profile with zero skills matched against a job with no required
\* and no preferred skills gets skill_match_score = 50, whatever the job
\* description is.
C14_NoSkillsNeutral ==
    \A r \in Scored :
        ( /\ profile.skills = <<>>
          /\ r.job.required_skills = <<>> /\ r.job.preferred_skills = <<>> ) =>
        r.score.skill_match_score = Int2Rat(50)

-----------------------------------------------------------------------------
(* Salary match and compensation score of match_job, on profiles and jobs  *)
(* that differ in their salaries only.                                     *)

SalaryExpectations == { None, Some(100000), Some(150000) }

SalaryProfiles == { [TypicalProfile EXCEPT !.min_salary = sa] : sa \in SalaryExpectations }

\* the (salary_min, salary_max) of the jobs
SalaryBounds ==
    << <<None, None>>, <<Some(160000), Some(190000)>>, <<None, Some(220000)>>,
       <<Some(140000), Some(160000)>>, <<None, Some(135000)>>, <<Some(130000), Some(140000)>>,
       <<Some(100000), Some(120000)>>, <<Some(100000), None>>, <<Some(195000), None>>,
       <<Some(150000), Some(165000)>>, <<Some(40000), Some(50000)>>, <<None, Some(60000)>>,
       <<Some(90000), None>>, <<Some(150000), Some(150000)>>, <<Some(80000), Some(200000)>>,
       <<Some(10000), Some(30000)>> >>

\* Job(salary_min=.., salary_max=..)
SalaryCatalog ==
    [ k \in 1..Len(SalaryBounds) |->
        [ JobCatalog[2] EXCEPT !.salary_min = SalaryBounds[k][1],
                               !.salary_max = SalaryBounds[k][2] ] ]

InitSalary ==
    /\ profile \in SalaryProfiles
    /\ job_store = SalaryCatalog
    /\ jobs \in { <<r>> : r \in 1..Len(SalaryCatalog) }
    /\ now = Now0
    /\ allocated = 0
    /\ res = NoCall
    /\ args = NoArgs
    /\ NoAggregator
    /\ NoApplicant

SpecSalary == InitSalary /\ [][Next]_vars

\* a salary bound of the job, the other bound standing in for a missing one
BoundOr(first, second) == IF first # None THEN first[1] ELSE second[1]

\* the salary match as stated, for expectation and job bounds that may be absent
StatedSalaryMatch(expectation, salary_min, salary_max) ==
    IF expectation = None THEN Int2Rat(70)
    ELSE IF salary_min = None /\ salary_max = None THEN Int2Rat(60)
    ELSE LET job_max == BoundOr(salary_max, salary_min)
             job_min == BoundOr(salary_min, salary_max)
             e == expectation[1]
         IN  IF job_max >= e /\ job_min >= e THEN Int2Rat(100)
             ELSE IF job_max >= e /\ job_min < e THEN Int2Rat(85)
             ELSE IF 9 * e <= 10 * job_max /\ job_max < e THEN Int2Rat(70)
             ELSE IF 10 * job_max < 9 * e
             THEN RMax(Int2Rat(0), RMul(Rat(job_max, e), Int2Rat(60)))
             ELSE Int2Rat(50)

\* C15: salary match: with no profile min_salary the score is 70; else with
\* no job salary bound it is 60; else, with job_max and job_min each falling
\* back to the other when missing: 100 if job_max >= expectation and job_min
\* >= expectation, 85 if job_max >= expectation but job_min < expectation, 70
\* if 0.9*expectation <= job_max < expectation, max(0, job_max/expectation*60)
\* if job_max < 0.9*expectation, and 50 otherwise; min_salary 150000 with a
\* job of 160000-190000 gives 100.
C15_SalaryMatchBands ==
    \A r \in Scored :
        /\ r.score.salary_match_score
             = StatedSalaryMatch(profile.min_salary, r.job.salary_min, r.job.salary_max)
        /\ ( /\ profile.min_salary = Some(150000)
             /\ r.job.salary_min = Some(160000) /\ r.job.salary_max = Some(190000) ) =>
             r.score.salary_match_score = Int2Rat(100)

\* C15 witness: match_job has scored, for min_salary 150000, a job that has
\* only a lower salary bound, below 90% of the expectation: the bound has
\* stood in for job_max and the score is strictly between 0 and 60.
C15_Witness ==
    /\ res.op = "match_job" /\ res.exc = ""
    /\ profile.min_salary = Some(150000)
    /\ \E r \in Scored :
         /\ r.job.salary_max = None /\ r.job.salary_min = Some(100000)
         /\ r.score.salary_match_score = Int2Rat(40)

\* the compensation score as stated
StatedCompensation(expectation, salary_min, salary_max) ==
    IF salary_min = None /\ salary_max = None THEN Int2Rat(50)
    ELSE LET job_salary == BoundOr(salary_max, salary_min)
         IN  IF expectation # None
             THEN LET ratio == Rat(job_salary, expectation[1])
                  IN  IF RGe(ratio, Rat(13, 10)) THEN Int2Rat(100)
                      ELSE IF RGe(ratio, Rat(11, 10)) THEN Int2Rat(90)
                      ELSE IF RGe(ratio, Int2Rat(1)) THEN Int2Rat(80)
                      ELSE IF RGe(ratio, Rat(9, 10)) THEN Int2Rat(70)
                      ELSE RMax(Int2Rat(20), RMul(ratio, Int2Rat(60)))
             ELSE IF job_salary >= 200000 THEN Int2Rat(95)
             ELSE IF job_salary >= 150000 THEN Int2Rat(85)
             ELSE IF job_salary >= 120000 THEN Int2Rat(75)
             ELSE IF job_salary >= 90000 THEN Int2Rat(65)
             ELSE IF job_salary >= 60000 THEN Int2Rat(50)
             ELSE Int2Rat(40)

\* C16: the compensation score is computed apart from the salary match: 50
\* when the job has no salary bound; otherwise with job_salary = salary_max
\* (salary_min when the max is missing): if the profile has min_salary, ratio
\* = job_salary/min_salary maps to 100 (>= 1.3), 90 (>= 1.1), 80 (>= 1.0), 70
\* (>= 0.9), else max(20, ratio*60); if the profile has no min_salary, the
\* absolute bands 95 (>= 200k), 85 (>= 150k), 75 (>= 120k), 65 (>= 90k), 50
\* (>= 60k), 40 (< 60k); no min_salary and salary_max 220000 give
\* compensation 95 and salary match 70.
C16_CompensationBands ==
    \A r \in Scored :
        /\ r.score.compensation_score
             = StatedCompensation(profile.min_salary, r.job.salary_min, r.job.salary_max)
        /\ (profile.min_salary = None /\ r.job.salary_max = Some(220000)) =>
             /\ r.score.compensation_score = Int2Rat(95)
             /\ r.score.salary_match_score = Int2Rat(70)

\* C16 witness: match_job has scored, for min_salary 150000, a job of
\* 160000-190000: the salary match is 100 and the compensation score, from
\* the ratio of salary_max to the expectation, is 90.
C16_Witness ==
    /\ res.op = "match_job" /\ res.exc = ""
    /\ profile.min_salary = Some(150000)
    /\ \E r \in Scored :
         /\ r.job.salary_min = Some(160000) /\ r.job.salary_max = Some(190000)
         /\ r.score.salary_match_score = Int2Rat(100)
         /\ r.score.compensation_score = Int2Rat(90)

-----------------------------------------------------------------------------
(* The cases of _skills_match.                                             *)

\* term is a canonical term of the table and alias one of its listed aliases
TermAndAlias(term, alias) == term \in CanonicalTerms /\ alias \in AliasesOf(term)

\* both names are longer than 3 characters and one is a substring of the other
LongSubstring(a, b) ==
    /\ Len(a) > 3 /\ Len(b) > 3
    /\ (Contains(a, b) \/ Contains(b, a))

\* both names are listed aliases of one canonical term
AliasesOfOneTerm(a, b) ==
    \E term \in CanonicalTerms : a \in AliasesOf(term) /\ b \in AliasesOf(term)

\* C18 (as stated): two lowercase skill names are equivalent under
\* _skills_match exactly when (a) they are identical, or (b) one is a
\* canonical term of the synonym table and the other is one of that term's
\* listed aliases, or (c) both are longer than 3 characters and one is a
\* substring of the other; no other pair is equivalent.
C18_EquivalenceCases ==
    res.op = "_skills_match" =>
        ( res.ret[1] <=> \/ args[1] = args[2]
                         \/ TermAndAlias(args[1], args[2]) \/ TermAndAlias(args[2], args[1])
                         \/ LongSubstring(args[1], args[2]) )

\* C18 (amended): two lowercase skill names are equivalent under
\* _skills_match exactly when (a) they are identical, or (b) one is a
\* canonical term of the synonym table and the other is one of that term's
\* listed aliases, or both are listed aliases of the same canonical term, or
\* (c) both are longer than 3 characters and one is a substring of the other;
\* no other pair is equivalent.
C18_EquivalenceCasesWithAliases ==
    res.op = "_skills_match" =>
        ( res.ret[1] <=> \/ args[1] = args[2]
                         \/ TermAndAlias(args[1], args[2]) \/ TermAndAlias(args[2], args[1])
                         \/ AliasesOfOneTerm(args[1], args[2])
                         \/ LongSubstring(args[1], args[2]) )

\* C18 witness: _skills_match has been called with two different aliases of
\* "javascript", both shorter than 4 characters or no substring of each
\* other, and has held.
C18_Witness ==
    /\ PairCall("js", "ecmascript")
    /\ res.ret[1]
    /\ ~LongSubstring("js", "ecmascript")

-----------------------------------------------------------------------------
(* The skill breakdown of match_job.                                       *)

\* the distinct lower-cased names of a list of skill names
LowerNames(skill_list) == { lower(skill_list[i]) : i \in 1..Len(skill_list) }

\* the distinct lower-cased names of the skills of the profile
ProfileNames == { lower(profile.skills[n].name) : n \in 1..Len(profile.skills) }

\* the distinct required skills of the job that are equivalent to no profile skill
Uncovered(job) ==
    { q \in LowerNames(job.required_skills) :
        ~\E u \in ProfileNames : _skills_match(q, u) }

\* C19: skill breakdown of every match_job result: each distinct lowercase
\* profile skill name appears, title-cased, in exactly one of matched_skills
\* and bonus_skills, in matched_skills iff it is equivalent to some required
\* or preferred job skill, and the two lists hold nothing else;
\* missing_skills holds exactly the distinct required job skills,
\* title-cased, that are equivalent to no profile skill; a skill that is only
\* preferred never appears in missing_skills.
C19_SkillBreakdown ==
    \A r \in Scored :
        LET used == LowerNames(r.job.required_skills) \cup LowerNames(r.job.preferred_skills)
            matched == r.score.matched_skills
            bonus == r.score.bonus_skills
            missing == r.score.missing_skills
        IN  /\ \A u \in ProfileNames :
                 /\ Count(matched, title(u)) + Count(bonus, title(u)) = 1
                 /\ Count(matched, title(u)) = 1 <=> \E js \in used : _skills_match(u, js)
            /\ Len(matched) + Len(bonus) = Cardinality(ProfileNames)
            /\ { missing[k] : k \in 1..Len(missing) } = { title(q) : q \in Uncovered(r.job) }
            /\ Len(missing) = Cardinality(Uncovered(r.job))
            /\ \A p \in LowerNames(r.job.preferred_skills) \ LowerNames(r.job.required_skills) :
                 Count(missing, title(p)) = 0

\* C19 witness: match_job has scored the job with required [Python, AWS] and
\* preferred [Docker] for the profile with skills [Python, Kubernetes]: Python
\* is matched, Kubernetes is a bonus skill, AWS is missing, and Docker, only
\* preferred and not covered, is in none of the lists.
C19_Witness ==
    /\ res.op = "match_job" /\ res.exc = ""
    /\ \E r \in Scored :
         /\ r.job.id = "s1"
         /\ r.score.matched_skills = <<"Python">>
         /\ r.score.bonus_skills = <<"Kubernetes">>
         /\ r.score.missing_skills = <<"Aws">>

\* C20: the skill score is consistent with the reported breakdown: for a job
\* with a non-empty list of case-insensitively distinct required skills and
\* no preferred skills, skill_match_score = 70 * len(matched_skills) /
\* len(required_skills), and the number of required skills that the score
\* counts as matched is len(required_skills) - len(missing_skills).
C20_ScoreConsistentWithBreakdown ==
    \A r \in Scored :
        ( /\ r.job.required_skills # <<>>
          /\ Cardinality(LowerNames(r.job.required_skills)) = Len(r.job.required_skills)
          /\ r.job.preferred_skills = <<>> ) =>
        /\ r.score.skill_match_score
             = RMul(Int2Rat(70), Rat(Len(r.score.matched_skills), Len(r.job.required_skills)))
        /\ r.score.skill_match_score
             = RMul(Int2Rat(70), Rat(Len(r.job.required_skills) - Len(r.score.missing_skills),
                                     Len(r.job.required_skills)))

-----------------------------------------------------------------------------
(* JobAggregator.search_jobs.  A provider is a record [name, available,    *)
(* raises, jobs]: its search_jobs raises an Exception or returns the list  *)
(* jobs, the same at every call.  In parallel mode every provider is       *)
(* searched by a worker thread of the pool; the calling thread takes the   *)
(* futures from as_completed, in the order in which they complete.         *)

\* Job(title=.., company=.., source=..)
MkJob(job_title, company, source) ==
    [title |-> job_title, company |-> company, source |-> source]

\* the lists the providers return when their search does not raise
ProviderJobs ==
    [ Indeed |-> << MkJob("Backend Engineer", "Acme", "indeed"),
                    MkJob("Data Engineer", "Globex", "indeed") >>,
      LinkedIn |-> << MkJob("backend engineer", "ACME", "linkedin") >>,
      Lever |-> << MkJob("SRE", "Initech", "lever"),
                   MkJob("Data Engineer", "Globex", "lever") >> ]

MkProvider(name, available, raises, job_list) ==
    [name |-> name, available |-> available, raises |-> raises, jobs |-> job_list]

\* the provider lists of the aggregator: LinkedIn needs an API key, so it
\* may be unavailable; every search may raise
ProviderLists ==
    { << MkProvider("Indeed", TRUE, r1, ProviderJobs.Indeed),
         MkProvider("LinkedIn", a2, r2, ProviderJobs.LinkedIn),
         MkProvider("Lever", TRUE, r3, j3) >> :
        r1 \in BOOLEAN, a2 \in BOOLEAN, r2 \in BOOLEAN, r3 \in BOOLEAN,
        j3 \in {ProviderJobs.Lever, <<>>} }

\* the values of the `providers` argument of search_jobs
ProviderNames ==
    { None, Some(<<>>), Some(<<"indeed", "LINKEDIN">>), Some(<<"Lever">>), Some(<<"monster">>) }

\* the values of the `limit` argument of search_jobs
SearchLimits == { 1, 2, 100 }

\* lines 87-94
active_providers(provider_list, names) ==
    IF names = None \/ names[1] = <<>> THEN provider_list
    ELSE LET providers_lower == { lower(names[1][i]) : i \in 1..Len(names[1]) }
             chosen(p) == lower(p.name) \in providers_lower /\ p.available
         IN  SelectSeq(provider_list, chosen)

\* line 119
job_key(job) == lower(job.title) \o "_" \o lower(job.company)

\* lines 114-122: the first job of every key, in list order
RECURSIVE unique_jobs(_)
unique_jobs(all_jobs) ==
    IF all_jobs = <<>> THEN <<>>
    ELSE LET front == unique_jobs(SubSeq(all_jobs, 1, Len(all_jobs) - 1))
             job == all_jobs[Len(all_jobs)]
         IN  IF \E k \in 1..Len(front) : job_key(front[k]) = job_key(job)
             THEN front ELSE Append(front, job)

\* unique_jobs[:limit] (line 126), for limit >= 0
truncated(job_list, limit) ==
    SubSeq(job_list, 1, IF limit < Len(job_list) THEN limit ELSE Len(job_list))

\* lines 114-126: what search_jobs does once the search of the providers ends
returned(s) ==
    [s EXCEPT !.pc = "returned",
              !.result = truncated(unique_jobs(s.all_jobs), s.limit)]

\* variant: the exception of a provider is not caught: it ends the call
provider_outcome_uncaught(s, i) ==
    IF s.active[i].raises
    THEN [s EXCEPT !.pc = "returned", !.exc = "Exception",
                   !.done = @ \cup {i}, !.collected = @ \cup {i}]
    ELSE Only({ IF s2.collected = 1..Len(s2.active) THEN returned(s2) ELSE s2 :
                  s2 \in { [s EXCEPT !.all_jobs = @ \o s.active[i].jobs,
                                      !.done = @ \cup {i}, !.collected = @ \cup {i}] } })

\* The try statement on the outcome of the search of the provider at
\* position i (lines 154-159, 178-186): the jobs are appended to all_jobs, or
\* the exception is logged; after the last provider search_jobs goes on to
\* its return.
provider_outcome(s, i) ==
    Only({ IF s2.collected = 1..Len(s2.active) THEN returned(s2) ELSE s2 :
             s2 \in { IF s.active[i].raises
                      THEN [s EXCEPT !.errors = Append(@, s.active[i].name),
                                     !.done = @ \cup {i}, !.collected = @ \cup {i}]
                      ELSE [s EXCEPT !.all_jobs = @ \o s.active[i].jobs,
                                     !.done = @ \cup {i}, !.collected = @ \cup {i}] } })

\* the caller calls aggregator.search_jobs(query, limit=limit,
\* providers=names, parallel=parallel): lines 86-112, up to the submission
\* of the searches (parallel) or the start of the loop (sequential)
SearchJobs(names, limit, parallel) ==
    /\ search.pc \in {"idle", "returned"}
    /\ \E active \in { active_providers(providers, names) } :
         search' =
           IF active = <<>>
           THEN [NoSearch EXCEPT !.pc = "returned", !.parallel = parallel, !.limit = limit]
           ELSE [NoSearch EXCEPT
                   !.pc = IF parallel THEN "as_completed" ELSE "sequential",
                   !.parallel = parallel, !.limit = limit,
                   !.limit_per_provider =
                       IF limit \div Len(active) > 10 THEN limit \div Len(active) ELSE 10,
                   !.active = active]
    /\ UNCHANGED <<profile, job_store, jobs, now, allocated, res, args, providers, apply_vars>>

\* a worker thread ends self._search_provider for the provider at position
\* i: its future is done, with a result or an exception
WorkerDone(i) ==
    /\ search.pc = "as_completed"
    /\ i \in (1..Len(search.active)) \ search.done
    /\ search' = [search EXCEPT !.done = @ \cup {i}]
    /\ UNCHANGED <<profile, job_store, jobs, now, allocated, res, args, providers, apply_vars>>

\* as_completed hands the calling thread a future that is done
Collect(i) ==
    /\ search.pc = "as_completed"
    /\ i \in search.done \ search.collected
    /\ search' = provider_outcome(search, i)
    /\ UNCHANGED <<profile, job_store, jobs, now, allocated, res, args, providers, apply_vars>>

\* one iteration of the loop of _search_sequential
SearchNextProvider ==
    /\ search.pc = "sequential"
    /\ search' = provider_outcome(search, Cardinality(search.collected) + 1)
    /\ UNCHANGED <<profile, job_store, jobs, now, allocated, res, args, providers, apply_vars>>

InitAggregator ==
    /\ profile = EmptyProfile
    /\ job_store = JobCatalog
    /\ jobs = <<>>
    /\ now = Now0
    /\ allocated = 0
    /\ res = NoCall
    /\ args = NoArgs
    /\ providers \in ProviderLists
    /\ search = NoSearch
    /\ NoApplicant

NextAggregator ==
    \/ \E names \in ProviderNames, limit \in SearchLimits, parallel \in BOOLEAN :
         SearchJobs(names, limit, parallel)
    \/ \E i \in 1..Len(search.active) : WorkerDone(i)
    \/ \E i \in 1..Len(search.active) : Collect(i)
    \/ SearchNextProvider

SpecAggregator == InitAggregator /\ [][NextAggregator]_vars

\* the positions of the active providers whose search raises
Failing == { i \in 1..Len(search.active) : search.active[i].raises }

\* number of occurrences of the job in the lists that the active providers
\* at the given positions return
Supplied(positions, job) ==
    Cardinality({ <<i, k>> \in (1..Len(search.active)) \X (1..2) :
                    /\ i \in positions
                    /\ k <= Len(search.active[i].jobs)
                    /\ search.active[i].jobs[k] = job })

\* the jobs that some active provider returns
SuppliedJobs ==
    UNION { { search.active[i].jobs[k] : k \in 1..Len(search.active[i].jobs) } :
              i \in 1..Len(search.active) }

\* C17: in search_jobs, parallel or sequential, a failure of one provider's
\* search does not abort the others: whatever subset of the active providers
\* raises, the call does not raise, every active provider is searched and
\* collected before the call returns, every job returned by a provider that
\* does not fail is in the list before deduplication, as often as it was
\* returned, and a failing provider contributes no job.
C17_ProviderFailureIsolated ==
    /\ search.exc = ""
    /\ search.pc = "returned" =>
         /\ search.collected = 1..Len(search.active)
         /\ \A job \in SuppliedJobs :
              Count(search.all_jobs, job) = Supplied((1..Len(search.active)) \ Failing, job)
         /\ \A k \in 1..Len(search.all_jobs) : search.all_jobs[k] \in SuppliedJobs
         /\ Len(search.errors) = Cardinality(Failing)

\* C17 witness: a parallel search of three providers has returned; the
\* provider whose future was collected first had raised, and the jobs of the
\* two others, who returned some, are in the list before deduplication.
C17_Witness ==
    /\ search.pc = "returned" /\ search.parallel
    /\ Len(search.active) = 3
    /\ Cardinality(Failing) = 1
    /\ Len(search.errors) = 1
    /\ \E i \in Failing :
         /\ search.errors[1] = search.active[i].name
         /\ \A k \in (1..3) \ {i} : search.active[k].jobs # <<>>
    /\ Len(search.all_jobs) >= 3

-----------------------------------------------------------------------------
(* Experience match.                                                       *)

\* the clock readings that count for the latest call: its own, or the
\* current one for a profile whose experience does not depend on the clock
Readings == IF res.reads = {} THEN {now} ELSE res.reads

\* the experience match as stated, for u >= 0 total years and r required years
StatedExperience(u, r) ==
    IF RGe(u, Int2Rat(r))
    THEN (IF RLe(u, RMul(Rat(3, 2), Int2Rat(r))) THEN Int2Rat(100) ELSE Int2Rat(90))
    ELSE RMax(Int2Rat(0), RMin(Int2Rat(100), RMul(RDiv(u, Int2Rat(r)), Int2Rat(80))))

\* C21: experience match, for total years u >= 0 of the profile and the
\* resolved required years r: 100 if u >= r and u <= 1.5*r, 90 if u >= r and
\* u > 1.5*r, and (u/r)*80 clamped to [0, 100] if u < r; r = 0 causes no
\* division: the call raises nothing and the score is 100 for u = 0 and 90
\* for u > 0.
C21_ExperienceBands ==
    \A t \in Readings :
        LET u == total_experience_years(profile, t)
        IN  RGe(u, Int2Rat(0)) =>
              /\ \A x \in Scored :
                   /\ x.score.experience_match_score = StatedExperience(u, required_years(x.job))
                   /\ required_years(x.job) = 0 =>
                        x.score.experience_match_score
                          = IF u = Int2Rat(0) THEN Int2Rat(100) ELSE Int2Rat(90)
              /\ ( /\ res.op = "match_job" /\ jobs[res.idx] # NullRef
                   /\ required_years(job_store[jobs[res.idx]]) = 0 ) => res.exc = ""

\* C21 witness: match_job has scored a job that asks for 0 years for a
\* profile with more than 0 years, and the experience match is 90.
C21_Witness ==
    /\ res.op = "match_job" /\ res.exc = ""
    /\ RGt(total_experience_years(profile, now), Int2Rat(0))
    /\ \E x \in Scored :
         /\ required_years(x.job) = 0
         /\ x.score.experience_match_score = Int2Rat(90)

-----------------------------------------------------------------------------
(* Experience, education and location: profiles and jobs that exercise   *)
(* the decisions of the three criteria.                                    *)

\* the typical profile with its experiences, its education or its locations
\* and remote preference replaced
CriteriaProfiles ==
    { [TypicalProfile EXCEPT !.experiences = ex] :
        ex \in { <<>>,
                 << [start_date |-> 0, end_date |-> Some(183)] >>,
                 << [start_date |-> 0, end_date |-> Some(1461)] >>,
                 << [start_date |-> Now0 - 200, end_date |-> None] >> } }
    \cup
    { [TypicalProfile EXCEPT !.education = ed] :
        ed \in { <<>>,
                 << [degree |-> "Diploma"] >>,
                 << [degree |-> "Associate Degree"], [degree |-> "MBA"] >>,
                 << [degree |-> "PhD in Physics"] >>,
                 << [degree |-> "High School"], [degree |-> "Associate degree"] >> } }
    \cup
    { [TypicalProfile EXCEPT !.location = lo[1], !.desired_locations = lo[2],
                             !.remote_preference = lo[3]] :
        lo \in { <<"", <<>>, "flexible">>,
                 <<"San Francisco, CA", <<>>, "remote">>,
                 <<"San Francisco, CA", <<>>, "on_site">>,
                 <<"Dallas, TX", <<"Austin">>, "on_site">>,
                 <<"austin", <<>>, "remote">>,
                 <<"New York, NY", <<"Boston", "">>, "hybrid">>,
                 <<"Oakland, CA", <<"Portland", "Seattle, WA, USA">>, "hybrid">> } }

\* Job(id=.., description=.., requirements=.., experience_level=..,
\*     location=.., remote_option=..)
MkCriteriaJob(id, description, requirements, experience_level, location, remote_option) ==
    [ id |-> id, location |-> location, description |-> description,
      requirements |-> requirements,
      required_skills |-> <<>>, preferred_skills |-> <<>>,
      salary_min |-> None, salary_max |-> None,
      remote_option |-> remote_option, experience_level |-> experience_level ]

CriteriaCatalog ==
    << MkCriteriaJob("e1", "3 years experience", <<>>, "Senior", "", FALSE),
       MkCriteriaJob("e2", "At least 3 years. 5+ years of experience", <<>>, "", "", FALSE),
       MkCriteriaJob("e3", "Minimum 4 years", <<"2 years professional">>, "", "", FALSE),
       MkCriteriaJob("e4", "at least 7 years", <<"minimum 6 years">>, "Junior", "", FALSE),
       MkCriteriaJob("e5", "0 years of experience", <<>>, "Senior", "", FALSE),
       MkCriteriaJob("e6", "", <<>>, "Senior Staff Engineer", "", FALSE),
       MkCriteriaJob("e7", "", <<>>, "Staff / Principal", "", FALSE),
       MkCriteriaJob("e8", "", <<>>, "Entry Level", "", FALSE),
       MkCriteriaJob("e9", "", <<>>, "Executive Director", "", FALSE),
       MkCriteriaJob("e10", "", <<>>, "Intern", "", FALSE),
       MkCriteriaJob("e11", "10 years experience, or 2 years experience", <<>>, "", "", FALSE),
       MkCriteriaJob("e12", "", <<>>, "Mid-Senior", "", FALSE),
       MkCriteriaJob("e13", "Experience: 5 years", <<>>, "Junior", "", FALSE),
       MkCriteriaJob("e14", "12+ Years Of Experience", <<>>, "Lead", "", FALSE),
       MkCriteriaJob("e15", "At  least 8 years", <<>>, "Lead", "", FALSE),
       MkCriteriaJob("d1", "Bachelor degree required", <<>>, "", "", FALSE),
       MkCriteriaJob("d2", "Master preferred", <<>>, "", "", FALSE),
       MkCriteriaJob("d3", "You must have a PhD", <<>>, "", "", FALSE),
       MkCriteriaJob("d4", "Driving licence required", <<>>, "", "", FALSE),
       MkCriteriaJob("d5", "MBA or Master", <<"Required">>, "", "", FALSE),
       MkCriteriaJob("d6", "", <<"Degree required">>, "", "", FALSE),
       MkCriteriaJob("d7", "Bachelor or Doctorate required", <<>>, "", "", FALSE),
       MkCriteriaJob("d8", "Associate degree required", <<>>, "", "", FALSE),
       MkCriteriaJob("l1", "", <<>>, "", "San Francisco, CA", FALSE),
       MkCriteriaJob("l2", "", <<>>, "", "Austin, TX", FALSE),
       MkCriteriaJob("l3", "", <<>>, "", "Remote", TRUE),
       MkCriteriaJob("l4", "", <<>>, "", "", TRUE),
       MkCriteriaJob("l5", "", <<>>, "", "CA", FALSE),
       MkCriteriaJob("l6", "", <<>>, "", "Seattle, WA", FALSE),
       MkCriteriaJob("l7", "", <<>>, "", "Houston,TX", FALSE),
       MkCriteriaJob("l8", "", <<>>, "", "Sacramento CA", FALSE) >>

InitCriteria ==
    /\ profile \in CriteriaProfiles
    /\ job_store = CriteriaCatalog
    /\ jobs \in { <<r>> : r \in 1..Len(CriteriaCatalog) }
    /\ now = Now0
    /\ allocated = 0
    /\ res = NoCall
    /\ args = NoArgs
    /\ NoAggregator
    /\ NoApplicant

SpecCriteria == InitCriteria /\ [][Next]_vars

\* the text the patterns are searched in, case ignored
JobText(job) == lower(job.description \o " " \o JoinSpace(job.requirements))

\* the number captured by the leftmost match of pattern n in text, or None
Captured(n, text) ==
    LET at == { i \in 1..Len(text) :
                  CASE n = 1 -> Pattern1At(text, i)
                    [] n = 2 -> Pattern2At(text, i)
                    [] n = 3 -> Pattern3At(text, i) # 0
                    [] n = 4 -> Pattern4At(text, i) # 0 }
        i0 == CHOOSE i \in at : \A k \in at : i <= k
    IN  IF at = {} THEN None
        ELSE Some(GroupAt(text, CASE n \in {1, 2} -> i0
                                  [] n = 3 -> Pattern3At(text, i0)
                                  [] n = 4 -> Pattern4At(text, i0)))

\* the patterns that match the text of the job
Matching(job) == { n \in 1..4 : Captured(n, JobText(job)) # None }

\* the level keywords in the order of the table
LevelOrder ==
    << "entry", "junior", "mid", "senior", "lead", "principal", "staff", "director",
       "executive" >>

\* the positions in LevelOrder of the keywords the experience level contains
LevelHits(job) ==
    { k \in 1..Len(LevelOrder) : Contains(lower(job.experience_level), LevelOrder[k]) }

Least(S) == CHOOSE n \in S : \A m \in S : n <= m

\* the required years as stated: patterns in their order, then the level
\* keywords in the order of the table, then 2
StatedYears(job) ==
    IF Matching(job) # {} THEN Captured(Least(Matching(job)), JobText(job))[1]
    ELSE IF LevelHits(job) # {} THEN level_years[Least(LevelHits(job))][2]
    ELSE 2

\* C22: required years are the number captured by the first of the four
\* patterns, in their listed order, that matches the job text, even when
\* that number is 0; otherwise the value of the first keyword, in the order
\* of the table, that the lower-cased experience level contains (entry gives
\* 0); otherwise 2.  The experience match of every scored job is the one of
\* these required years.
C22_RequiredYearsPriority ==
    /\ \A k \in 1..Len(level_years) : level_years[k][1] = LevelOrder[k]
    /\ level_years[1][2] = 0
    /\ \A t \in Readings : \A x \in Scored :
         x.score.experience_match_score
           = StatedExperience(total_experience_years(profile, t), StatedYears(x.job))

\* C22 witness: a job scored for a profile with less than one year whose
\* text matches the fourth pattern before the first one matches, with
\* different numbers, and whose score is the one of the first pattern; the
\* score (u/r)*80 determines r.
C22_Witness ==
    /\ res.op = "match_job" /\ res.exc = ""
    /\ \E x \in Scored :
         LET u == total_experience_years(profile, now)
             text == JobText(x.job)
         IN  /\ RGt(u, Int2Rat(0)) /\ RLt(u, Int2Rat(1))
             /\ Matching(x.job) = {1, 4}
             /\ Captured(1, text) = Some(5) /\ Captured(4, text) = Some(3)
             /\ x.score.experience_match_score = RMul(RDiv(u, Int2Rat(5)), Int2Rat(80))

-----------------------------------------------------------------------------
(* Education match.                                                        *)

DegreeKeywords == { degree_requirements[k][1] : k \in 1..Len(degree_requirements) }

\* a required level is detected in the text of the job
RequirementDetected(job) ==
    /\ \E kw \in DegreeKeywords : Contains(JobText(job), kw)
    /\ Contains(JobText(job), "required") \/ Contains(JobText(job), "must have")

\* the levels recognized in the degree strings of the profile
RecognizedLevels(prof) ==
    { DegreeLevel(lower(prof.education[i].degree)) : i \in 1..Len(prof.education) } \ {0}

Greatest(S) == CHOOSE n \in S : \A m \in S : n >= m

\* the education match as stated
StatedEducation(prof, job) ==
    IF prof.education = <<>> THEN Int2Rat(50)
    ELSE IF ~RequirementDetected(job) THEN Int2Rat(80)
    ELSE IF RecognizedLevels(prof) = {} THEN Int2Rat(40)
    ELSE IF Greatest(RecognizedLevels(prof)) >= DegreeLevel(JobText(job)) THEN Int2Rat(100)
    ELSE RMul(Rat(Greatest(RecognizedLevels(prof)), DegreeLevel(JobText(job))), Int2Rat(80))

\* C23: education match, in this order: 50 if the profile lists no
\* education; else 80 if no required level is detected (no degree keyword in
\* the job text, or neither "required" nor "must have" in it); else 40 if no
\* degree string of the profile contains a keyword of the hierarchy; else
\* 100 if the highest recognized level of the profile is at least the
\* required level; else (profile level / required level) * 80.
C23_EducationDecisionOrder ==
    \A x \in Scored : x.score.education_match_score = StatedEducation(profile, x.job)

\* C23 witness: a job that requires a doctorate has been scored for a
\* profile whose highest recognized degree is a bachelor: (60/100)*80 = 48.
C23_Witness ==
    /\ res.op = "match_job" /\ res.exc = ""
    /\ \E x \in Scored :
         /\ RequirementDetected(x.job) /\ DegreeLevel(JobText(x.job)) = 100
         /\ RecognizedLevels(profile) = {60}
         /\ x.score.education_match_score = Int2Rat(48)

-----------------------------------------------------------------------------
(* Location match.  Locations are compared in lower case.                  *)

\* one of the two strings is a substring of the other
PartOf(a, b) == Contains(a, b) \/ Contains(b, a)

\* the profile location and the desired locations, in lower case
ProfilePlaces(prof) ==
    { lower(prof.location) }
      \cup { lower(prof.desired_locations[i]) : i \in 1..Len(prof.desired_locations) }

\* the tokens of a location, split on commas and whitespace
Tokens(loc) == SplitSet(ReplaceComma(lower(loc)))

\* the location match as stated
StatedLocation(prof, job) ==
    IF job.remote_option
    THEN (IF prof.remote_preference \in {"remote", "flexible"} THEN 100 ELSE 80)
    ELSE IF job.location = "" \/ prof.location = "" THEN 70
    ELSE IF \E place \in ProfilePlaces(prof) : PartOf(place, lower(job.location)) THEN 100
    ELSE IF Tokens(prof.location) \cap Tokens(job.location) # {} THEN 80
    ELSE CASE prof.remote_preference = "remote" -> 40
           [] prof.remote_preference = "flexible" -> 60
           [] OTHER -> 30

\* C24: location match, in this order: for a remote job 100 when the remote
\* preference of the profile is remote or flexible and 80 otherwise; else 70
\* if the job location or the profile location is empty; else 100 if the
\* profile location or any desired location is a substring of the job
\* location or contains it; else 80 if profile location and job location
\* share a token after splitting on commas and whitespace; else 40 for the
\* preference remote, 60 for flexible, 30 for any other.
C24_LocationDecisionOrder ==
    \A x \in Scored : x.score.location_match_score = Int2Rat(StatedLocation(profile, x.job))

\* C24 witness: a job has been scored whose location shares a token with
\* the profile location, neither being part of the other, and holds a
\* desired location: the match is 100, not 80.
C24_Witness ==
    /\ res.op = "match_job" /\ res.exc = ""
    /\ \E x \in Scored :
         /\ ~x.job.remote_option /\ x.job.location # "" /\ profile.location # ""
         /\ ~PartOf(lower(profile.location), lower(x.job.location))
         /\ Tokens(profile.location) \cap Tokens(x.job.location) # {}
         /\ \E i \in 1..Len(profile.desired_locations) :
               Contains(lower(x.job.location), lower(profile.desired_locations[i]))
         /\ x.score.location_match_score = Int2Rat(100)

-----------------------------------------------------------------------------
(* AutoApplicant (utils/auto_apply.py).  Times are seconds.  A call of     *)
(* apply reads the clock when it starts (the two checks) and when it       *)
(* records the application: in between lie the confirmation prompt and     *)
(* the submission, which take replies[i].takes seconds.                    *)

COOLDOWN_SECONDS == 60
DEFAULT_RATE_LIMIT == 10
\* timedelta(hours=1)
HourSeconds == 3600
\* time.sleep(5)
BatchDelay == 5

MaxSteps == 4       \* calls of apply on its own and pauses in one behaviour

\* the applications that apply is called with on its own
DirectApplications == 1..3

\* AutoApplicant(profile, dry_run, rate_limit, require_confirmation)
AutoApplicant(dry_run, rate_limit, require_confirmation) ==
    [ dry_run |-> dry_run,
      rate_limit |-> IF rate_limit \in {None, Some(0)} THEN DEFAULT_RATE_LIMIT ELSE rate_limit[1],
      require_confirmation |-> require_confirmation,
      _application_times |-> <<>>,
      _last_application |-> None ]

\* Application(job=Job(id=.., source=..), match_score=MatchScore(hiring_likelihood=..))
MkApplication(job_id, source, hiring_likelihood) ==
    [ job |-> [id |-> job_id, source |-> source],
      match_score |-> [hiring_likelihood |-> hiring_likelihood],
      status |-> "IDENTIFIED", applied_at |-> None ]

\* the answer of the confirmation callback, the answer of the provider
\* (a status code, "exception" for a failed request, "ImportError" when
\* requests is not installed) and the seconds both take
MkReply(answer, response, takes) == [answer |-> answer, response |-> response, takes |-> takes]

\* variant: a full hour of applications still lets one more through
check_rate_limit_inclusive(self, t) ==
    Only({ [self |-> [self EXCEPT !._application_times = kept],
            ret |-> Len(kept) <= self.rate_limit] :
             kept \in { SelectSeq(self._application_times, LAMBDA x : x > t - HourSeconds) } })

\* returns [self, ret]: the instance after the call and the returned value
_check_rate_limit(self, t) ==
    Only({ [self |-> [self EXCEPT !._application_times = kept],
            ret |-> Len(kept) < self.rate_limit] :
             kept \in { SelectSeq(self._application_times, LAMBDA x : x > t - HourSeconds) } })

\* variant: no cooldown
check_cooldown_disabled(self, t) == TRUE

_check_cooldown(self, t) ==
    IF self._last_application = None THEN TRUE
    ELSE t - self._last_application[1] >= COOLDOWN_SECONDS

_record_application(self, t) ==
    [self EXCEPT !._application_times = Append(@, t), !._last_application = Some(t)]

\* str.replace(old, ""), for old without a proper overlap with itself
RECURSIVE Remove(_, _)
Remove(s, old) ==
    IF Len(s) < Len(old) \/ old = "" THEN s
    ELSE IF SubSeq(s, 1, Len(old)) = old THEN Remove(SubSeq(s, Len(old) + 1, Len(s)), old)
    ELSE CharAt(s, 1) \o Remove(SubSeq(s, 2, Len(s)), old)

\* len(job_id.split("_", 1)) == 2 for job.id without its prefix
id_has_two_parts(job_id, prefix) == Contains(Remove(job_id, prefix), "_")

\* _prepare_manual_application: returns [success, by, posted, prepared]
_prepare_manual_application ==
    [success |-> TRUE, by |-> "manual", posted |-> FALSE, prepared |-> TRUE]

\* _apply_greenhouse and _apply_lever, which differ in the name of the
\* provider and in their message for status 400
_apply_api(provider, application, reply) ==
    IF reply.response = "ImportError" THEN _prepare_manual_application
    ELSE IF ~id_has_two_parts(application.job.id, provider \o "_")
    THEN [success |-> FALSE, by |-> "invalid_id", posted |-> FALSE, prepared |-> FALSE]
    ELSE IF reply.response \in {"200", "201"}
    THEN [success |-> TRUE, by |-> provider, posted |-> TRUE, prepared |-> FALSE]
    ELSE IF reply.response = "exception"
    THEN [success |-> FALSE, by |-> "failed", posted |-> TRUE, prepared |-> FALSE]
    ELSE [success |-> FALSE,
          by |-> IF provider = "greenhouse" /\ reply.response = "400"
                 THEN "rejected" ELSE "api_error",
          posted |-> TRUE, prepared |-> FALSE]

\* lines 117-128 of apply: the submission by source
submit(application, reply) ==
    Only({ IF source \in {"greenhouse", "lever"} THEN _apply_api(source, application, reply)
           ELSE _prepare_manual_application :
             source \in { lower(application.job.source) } })

\* a call of apply that ends at one of its first three returns
Unsubmitted(self, application, by, asked, ends) ==
    [ self |-> self, application |-> application, success |-> FALSE, by |-> by,
      asked |-> asked, logged |-> FALSE, posted |-> FALSE, prepared |-> FALSE, ends |-> ends ]

\* variant: the dry run goes on to the submission
apply_confirmed_dry_run_submits(self, application, reply, t) ==
    Only({ [ self |-> IF sub.success THEN _record_application(self, t) ELSE self,
             application |-> IF sub.success
                             THEN [application EXCEPT !.status = "APPLIED",
                                                      !.applied_at = Some(t)]
                             ELSE application,
             success |-> sub.success, by |-> sub.by, asked |-> self.require_confirmation,
             logged |-> TRUE, posted |-> sub.posted, prepared |-> sub.prepared,
             ends |-> t ] :
               sub \in { submit(application, reply) } })

\* lines 108-135 of apply: the call past the checks and the confirmation,
\* which records the application at time t
apply_confirmed(self, application, reply, t) ==
    IF self.dry_run
    THEN [ self |-> _record_application(self, t), application |-> application,
           success |-> TRUE, by |-> "dry_run", asked |-> self.require_confirmation,
           logged |-> TRUE, posted |-> FALSE, prepared |-> FALSE, ends |-> t ]
    ELSE Only({ [ self |-> IF sub.success THEN _record_application(self, t) ELSE self,
                  application |-> IF sub.success
                                  THEN [application EXCEPT !.status = "APPLIED",
                                                           !.applied_at = Some(t)]
                                  ELSE application,
                  success |-> sub.success, by |-> sub.by, asked |-> self.require_confirmation,
                  logged |-> TRUE, posted |-> sub.posted, prepared |-> sub.prepared,
                  ends |-> t ] :
                    sub \in { submit(application, reply) } })

\* AutoApplicant.apply called at time t: returns the instance and the
\* application after the call, (success, by) for the returned pair, whether
\* the confirmation was asked for, the attempt logged, a request posted to a
\* provider, manual materials prepared, and the time of the return
apply(self, application, reply, t) ==
    Only({ IF ~limit.ret THEN Unsubmitted(limit.self, application, "rate_limit", FALSE, t)
           ELSE IF ~_check_cooldown(limit.self, t)
           THEN Unsubmitted(limit.self, application, "cooldown", FALSE, t)
           ELSE IF self.require_confirmation /\ ~reply.answer
           THEN Unsubmitted(limit.self, application, "cancelled", TRUE, t + reply.takes)
           ELSE apply_confirmed(limit.self, application, reply, t + reply.takes) :
             limit \in { _check_rate_limit(self, t) } })

\* _log_application_attempt: the entry without its timestamp and score
log_entry(self, application) ==
    [ job_id |-> application.job.id, source |-> application.job.source,
      dry_run |-> self.dry_run ]

\* the effect of one call of apply with applications[i] on the state, the
\* clock being set to the time of the return plus pause
Applied(i, out, pause) ==
    /\ applicant' = out.self
    /\ applications' = [applications EXCEPT ![i] = out.application]
    /\ clock' = out.ends + pause
    /\ attempt_log' = IF out.logged THEN Append(attempt_log, log_entry(applicant, applications[i]))
                      ELSE attempt_log
    /\ outcome' = [ op |-> "apply", app |-> i, at |-> clock, ends |-> out.ends,
                    success |-> out.success, by |-> out.by, asked |-> out.asked,
                    logged |-> out.logged, posted |-> out.posted, prepared |-> out.prepared ]
    /\ successes' = IF out.success THEN Append(successes, out.ends) ELSE successes

\* the caller calls applicant.apply(applications[i], resume, cover_letter);
\* a behaviour makes these calls before its call of apply_batch
Apply(i) ==
    /\ batch.pc = "idle"
    /\ tally < MaxSteps
    /\ \E out \in { apply(applicant, applications[i], replies[i], clock) } : Applied(i, out, 0)
    /\ tally' = tally + 1
    /\ UNCHANGED <<profile, job_store, jobs, now, allocated, res, args, providers, search,
                   replies, batch>>

\* place of application x in a list of applications in descending order of
\* hiring likelihood: behind every one whose likelihood is >= the one of x
RECURSIVE InsertApplication(_, _, _)
InsertApplication(sorted, x, apps) ==
    IF sorted = <<>> THEN <<x>>
    ELSE IF apps[Head(sorted)].match_score.hiring_likelihood
              >= apps[x].match_score.hiring_likelihood
    THEN <<Head(sorted)>> \o InsertApplication(Tail(sorted), x, apps)
    ELSE <<x>> \o sorted

\* sorted(applications, key=hiring_likelihood, reverse=True), descending
\* and stable, of the first n applications, as a list of references
RECURSIVE sorted_apps(_, _)
sorted_apps(apps, n) ==
    IF n = 0 THEN <<>> ELSE InsertApplication(sorted_apps(apps, n - 1), n, apps)

\* the caller calls applicant.apply_batch(applications, .., .., max_applications)
ApplyBatch(max_applications) ==
    /\ batch.pc = "idle"
    /\ \E attempted \in { truncated(sorted_apps(applications, Len(applications)),
                                     max_applications) } :
         batch' = [ pc |-> IF attempted = <<>> THEN "returned" ELSE "loop",
                    attempted |-> attempted, queue |-> attempted, results |-> <<>> ]
    /\ UNCHANGED <<profile, job_store, jobs, now, allocated, res, args, providers, search,
                   applicant, applications, replies, clock, attempt_log, outcome, successes,
                   tally>>

\* one turn of the loop of apply_batch: apply, results.append, time.sleep
BatchApply ==
    /\ batch.pc = "loop"
    /\ \E i \in { Head(batch.queue) } :
       \E out \in { apply(applicant, applications[i], replies[i], clock) } :
         /\ Applied(i, out, IF applicant.dry_run THEN 0 ELSE BatchDelay)
         /\ batch' = [batch EXCEPT
                        !.queue = Tail(@),
                        !.results = Append(@, [app |-> i, success |-> out.success,
                                               by |-> out.by, at |-> clock,
                                               ends |-> out.ends]),
                        !.pc = IF Len(batch.queue) = 1 THEN "returned" ELSE "loop"]
    /\ UNCHANGED <<profile, job_store, jobs, now, allocated, res, args, providers, search,
                   replies, tally>>

Pauses == { COOLDOWN_SECONDS, HourSeconds - COOLDOWN_SECONDS }

\* time passes between two calls
Elapse(d) ==
    /\ batch.pc = "idle"
    /\ tally < MaxSteps
    /\ clock' = clock + d
    /\ tally' = tally + 1
    /\ UNCHANGED <<profile, job_store, jobs, now, allocated, res, args, providers, search,
                   applicant, applications, replies, attempt_log, outcome, successes, batch>>

\* the applications of a run and the replies to them
Scenarios ==
    << [ applications |->
           << MkApplication("greenhouse_acme_12", "greenhouse", 70),
              MkApplication("indeed_9", "Indeed", 80),
              MkApplication("lever_globex_7", "lever", 60) >>,
         replies |->
           << MkReply(TRUE, "201", 0), MkReply(TRUE, "", 30), MkReply(TRUE, "500", 0) >> ],
       [ applications |->
           << MkApplication("greenhouse_77", "Greenhouse", 50),
              MkApplication("lever_initech_3", "Lever", 50),
              MkApplication("m-1", "monster", 90) >>,
         replies |->
           << MkReply(TRUE, "200", 0), MkReply(FALSE, "200", 30), MkReply(TRUE, "", 0) >> ],
       [ applications |->
           << MkApplication("greenhouse_acme_1", "greenhouse", 40),
              MkApplication("lever_acme_2", "lever", 55),
              MkApplication("glassdoor_3", "glassdoor", 30),
              MkApplication("lever_acme_4", "lever", 95),
              MkApplication("greenhouse_acme_5", "greenhouse", 55),
              MkApplication("linkedin_6", "linkedin", 20),
              MkApplication("greenhouse_acme_7", "greenhouse", 85),
              MkApplication("lever_acme_8", "lever", 10),
              MkApplication("indeed_9", "indeed", 75),
              MkApplication("greenhouse_acme_10", "greenhouse", 65),
              MkApplication("lever_acme_11", "lever", 5) >>,
         replies |->
           << MkReply(TRUE, "ImportError", 0), MkReply(TRUE, "200", 0),
              MkReply(TRUE, "", 0), MkReply(TRUE, "exception", 30),
              MkReply(TRUE, "201", 0), MkReply(TRUE, "", 0),
              MkReply(FALSE, "200", 30), MkReply(TRUE, "200", 0),
              MkReply(TRUE, "", 0), MkReply(TRUE, "400", 0),
              MkReply(TRUE, "200", 0) >> ] >>

InitApply ==
    /\ profile = TypicalProfile
    /\ job_store = <<>>
    /\ jobs = <<>>
    /\ now = Now0
    /\ allocated = 0
    /\ res = NoCall
    /\ args = NoArgs
    /\ NoAggregator
    /\ applicant \in { AutoApplicant(FALSE, Some(1), FALSE), AutoApplicant(FALSE, Some(2), TRUE),
                       AutoApplicant(FALSE, None, FALSE), AutoApplicant(TRUE, Some(2), TRUE),
                       AutoApplicant(TRUE, Some(0), FALSE) }
    /\ \E k \in 1..Len(Scenarios) :
         /\ applications = Scenarios[k].applications
         /\ replies = Scenarios[k].replies
    /\ clock = 0
    /\ attempt_log = <<>>
    /\ outcome = NoOutcome
    /\ successes = <<>>
    /\ batch = NoBatch
    /\ tally = 0

NextApply ==
    \/ \E i \in DirectApplications : Apply(i)
    \/ \E max_applications \in {10, 2} : ApplyBatch(max_applications)
    \/ BatchApply
    \/ \E d \in Pauses : Elapse(d)

SpecApply == InitApply /\ [][NextApply]_vars

-----------------------------------------------------------------------------
(* Rate limiting of AutoApplicant.apply.                                   *)

\* the step is a call of apply, on its own or from apply_batch
ApplyCalled == (\E i \in DirectApplications : Apply(i)) \/ BatchApply

\* the successes in the hour that starts at time w
SuccessesFrom(w) == { k \in 1..Len(successes) : w <= successes[k] /\ successes[k] < w + HourSeconds }

\* at most rate_limit successes in any hour, the hours that start at a
\* success being the ones with the most
WithinRateLimit ==
    \A j \in 1..Len(successes) : Cardinality(SuccessesFrom(successes[j])) <= applicant.rate_limit

\* any two successes are at least COOLDOWN_SECONDS apart
CooledDown ==
    \A j, k \in 1..Len(successes) : j < k => successes[k] - successes[j] >= COOLDOWN_SECONDS

\* a call rejected by one of the two checks records nothing, asks nothing
\* and logs nothing
RejectionRecordsNothing ==
    (ApplyCalled /\ outcome'.by \in {"rate_limit", "cooldown"}) =>
        /\ ~outcome'.success /\ ~outcome'.asked
        /\ attempt_log' = attempt_log
        /\ applicant'._last_application = applicant._last_application
        /\ \A k \in 1..Len(applicant'._application_times) :
               \E j \in 1..Len(applicant._application_times) :
                  applicant'._application_times[k] = applicant._application_times[j]
        /\ Len(applicant'._application_times) <= Len(applicant._application_times)
        /\ applications' = applications

\* C25: under any sequence of calls of apply on one instance, at most
\* rate_limit calls return success within any one-hour window, any two calls
\* that return success are at least COOLDOWN_SECONDS (60 s) apart, and a
\* call rejected by the rate-limit or the cooldown check records nothing,
\* does not ask for confirmation and does not write to the attempt log.
C25_RateLimiting ==
    [](WithinRateLimit /\ CooledDown) /\ [][RejectionRecordsNothing]_vars

\* C25 witness: a call has been rejected by the rate limit, more than the
\* cooldown after the latest of rate_limit successes, all in the last hour.
C25_Witness ==
    /\ outcome.op = "apply" /\ outcome.by = "rate_limit"
    /\ Len(successes) = applicant.rate_limit
    /\ \A k \in 1..Len(successes) :
         /\ outcome.at - successes[k] >= COOLDOWN_SECONDS
         /\ outcome.at - successes[k] < HourSeconds

-----------------------------------------------------------------------------
(* The safeguards of apply and the application.                            *)

\* status and applied_at of every application are what they were
ApplicationsUntouched ==
    \A k \in 1..Len(applications) :
        /\ applications'[k].status = applications[k].status
        /\ applications'[k].applied_at = applications[k].applied_at

\* the call has recorded itself for the rate limit at the time of its return
Recorded ==
    /\ applicant'._last_application = Some(outcome'.ends)
    /\ Len(applicant'._application_times) >= 1
    /\ applicant'._application_times[Len(applicant'._application_times)] = outcome'.ends
    /\ successes' = Append(successes, outcome'.ends)

SafeguardsLeaveApplication ==
    ApplyCalled =>
        /\ ( \/ outcome'.by \in {"rate_limit", "cooldown", "cancelled"}
             \/ applicant.dry_run
             \/ ~outcome'.success ) => ApplicationsUntouched
        /\ applicant.dry_run =>
             /\ ~outcome'.posted /\ ~outcome'.prepared
             /\ outcome'.by \notin {"rate_limit", "cooldown", "cancelled"} =>
                  outcome'.success /\ Recorded

\* C26: when apply is rejected by the rate limit or the cooldown, when the
\* confirmation is required and declined, when dry_run is true, or when the
\* submission fails, application.status and application.applied_at are
\* unchanged; in dry-run mode no submission to any provider is attempted,
\* although the call returns success and counts toward the rate limit.
C26_SafeguardsLeaveApplication == [][SafeguardsLeaveApplication]_vars

\* C26 witness: a call in dry-run mode has returned success and recorded
\* itself, the application being as it was created.
C26_Witness ==
    /\ outcome.op = "apply" /\ outcome.by = "dry_run" /\ outcome.success
    /\ applicant.dry_run /\ applicant._last_application = Some(outcome.ends)
    /\ ~outcome.posted
    /\ applications[outcome.app].status = "IDENTIFIED"
    /\ applications[outcome.app].applied_at = None

-----------------------------------------------------------------------------
(* What marks an application APPLIED.                                      *)

AppliedOnlyWhenAccepted ==
    ApplyCalled =>
        /\ \A k \in 1..Len(applications) :
             ( \/ applications'[k].status # applications[k].status
               \/ applications'[k].applied_at # applications[k].applied_at ) =>
                 /\ k = outcome'.app
                 /\ applications'[k].status = "APPLIED"
                 /\ applications'[k].applied_at # None
                 /\ outcome'.posted /\ outcome'.by \in {"greenhouse", "lever"}
        /\ outcome'.prepared => ApplicationsUntouched

\* C27: apply marks an application APPLIED (status = APPLIED, applied_at
\* set) only when a submission was accepted by a provider API (Greenhouse or
\* Lever); when only the materials of a manual application are prepared
\* (sources indeed, linkedin, glassdoor or unknown), the status is left
\* unchanged.
C27_AppliedOnlyWhenAccepted == [][AppliedOnlyWhenAccepted]_vars

-----------------------------------------------------------------------------
(* Parallel and sequential search.                                         *)

\* all_jobs of the sequential search: the jobs of the providers that do not
\* raise, in the order of the active providers
RECURSIVE SequentialJobs(_)
SequentialJobs(active) ==
    IF active = <<>> THEN <<>>
    ELSE (IF Head(active).raises THEN <<>> ELSE Head(active).jobs) \o SequentialJobs(Tail(active))

\* what search_jobs returns with parallel=False for the providers and the
\* limit of the latest search
SequentialResult == truncated(unique_jobs(SequentialJobs(search.active)), search.limit)

\* C28: for fixed provider responses, search_jobs with parallel=True returns
\* the same list of jobs (same records in the same order, after the
\* deduplication and the truncation to limit) as with parallel=False,
\* whatever the order in which the searches of the providers complete.
C28_ParallelEqualsSequential ==
    (search.pc = "returned" /\ search.parallel) => search.result = SequentialResult

-----------------------------------------------------------------------------
(* apply_batch.                                                            *)

\* the applications of the batch that follow a success of the batch less
\* than COOLDOWN_SECONDS after it, as pairs of positions in the results
FollowingWithinCooldown ==
    { p \in (1..Len(batch.results)) \X (1..Len(batch.results)) :
        /\ p[1] < p[2]
        /\ batch.results[p[1]].success
        /\ batch.results[p[2]].at - batch.results[p[1]].ends < COOLDOWN_SECONDS }

\* at most one success among at most 10 applications, and one result per
\* attempted application, in descending order of hiring likelihood
OneSuccessInOrder ==
    /\ Len(batch.attempted) <= 10 =>
          Cardinality({ k \in 1..Len(batch.results) : batch.results[k].success }) <= 1
    /\ Len(batch.results) <= Len(batch.attempted)
    /\ batch.pc = "returned" => Len(batch.results) = Len(batch.attempted)
    /\ \A k \in 1..Len(batch.results) : batch.results[k].app = batch.attempted[k]
    /\ \A j, k \in 1..Len(batch.results) :
          j < k => applications[batch.results[j].app].match_score.hiring_likelihood
                     >= applications[batch.results[k].app].match_score.hiring_likelihood

\* C29 as stated: in apply_batch, once one application of the batch has
\* returned success, every following application of the batch is rejected
\* by the cooldown check as long as fewer than COOLDOWN_SECONDS (60 s) have
\* elapsed since that success; the only delay between applications being
\* 5 s (none in dry-run mode), a batch of up to 10 applications yields at
\* most one success, and the result list has one entry per attempted
\* application in descending order of hiring likelihood.
C29_BatchCooldown ==
    /\ \A p \in FollowingWithinCooldown : batch.results[p[2]].by = "cooldown"
    /\ OneSuccessInOrder

\* C29 amended: as C29, the following applications being rejected by the
\* rate-limit check or by the cooldown check.
C29_BatchRateLimitOrCooldown ==
    /\ \A p \in FollowingWithinCooldown :
          /\ ~batch.results[p[2]].success
          /\ batch.results[p[2]].by \in {"rate_limit", "cooldown"}
    /\ OneSuccessInOrder

\* C29 witness: a batch of 10 real applications has returned: its second
\* application succeeded, the 8 that follow were called 5 s after one
\* another and rejected, the last one 40 s after the success.
C29_Witness ==
    /\ batch.pc = "returned" /\ Len(batch.results) = 10 /\ ~applicant.dry_run
    /\ ~batch.results[1].success /\ batch.results[2].success
    /\ \A k \in 3..10 :
         /\ batch.results[k].by \in {"rate_limit", "cooldown"}
         /\ batch.results[k].at - batch.results[2].ends = BatchDelay * (k - 2)

-----------------------------------------------------------------------------
(* Jobs that list one kind of skill only.                                  *)

\* every skill of the list is equivalent to some profile skill name
FullyMatched(prof, skill_list) == EquivalentCount(prof, skill_list) = Len(skill_list)

\* C30: when a job lists one kind of skill only, the share of the other
\* kind is lost: with preferred skills and no required skills
\* skill_match_score <= 30, with required skills and no preferred skills
\* skill_match_score <= 70, even when every listed skill is matched; a score
\* of 100 for a job that lists skills needs both lists non-empty and fully
\* matched.
C30_OneKindShareLost ==
    \A r \in Scored :
        (r.job.required_skills # <<>> \/ r.job.preferred_skills # <<>>) =>
           /\ r.job.required_skills = <<>> => RLe(r.score.skill_match_score, Int2Rat(30))
           /\ r.job.preferred_skills = <<>> => RLe(r.score.skill_match_score, Int2Rat(70))
           /\ r.score.skill_match_score = Int2Rat(100) =>
                /\ r.job.required_skills # <<>> /\ r.job.preferred_skills # <<>>
                /\ FullyMatched(profile, r.job.required_skills)
                /\ FullyMatched(profile, r.job.preferred_skills)

\* C30 witness: a job with preferred skills only, all of them matched, has
\* been scored 30.
C30_Witness ==
    /\ res.op = "match_job" /\ res.exc = ""
    /\ \E r \in Scored :
         /\ r.job.required_skills = <<>> /\ r.job.preferred_skills # <<>>
         /\ FullyMatched(profile, r.job.preferred_skills)
         /\ r.score.skill_match_score = Int2Rat(30)

====
